---- MODULE Spec2Model ----
(***************************************************************************)
(* Model of blog-cli: the CLI run that saves the generated post and        *)
(* publishes it as a WordPress draft (cli.py, wordpress.py), and the       *)
(* multi-provider image generator (image_gen.py).                          *)
(*                                                                         *)
(* Text is abstracted to what the code's regular expressions look at: an   *)
(* HTML document is a sequence of tokens (image placeholder comments, the  *)
(* Sources heading, the inserted link block, <img> tags).  A remote call   *)
(* has three outcomes: "ok" (2xx), "http_error" (a response with another   *)
(* status, which the wrappers turn into WordPressError) and "exception"    *)
(* (requests raises: connection error, timeout; or the response body is    *)
(* not the JSON the code indexes).                                         *)
(***************************************************************************)
EXTENDS Integers, Sequences, FiniteSets, TLC

\* ------------------------------------------------------------------ bounds
MaxImages == 2
MaxHtmlLen == 2
MaxPosts == 4
MaxPrompts == 2
MaxMdLen == 2
MaxKwLen == 2
MaxBodyLen == 2
MaxSlugLen == 3
MaxPlainLen == 3
MaxBodyLines == 6
MaxHeadingLines == 5
MaxParseLines == 4
MaxValues == 2
MaxSlugLines == 2
MaxKeywordChars == 3

\* ------------------------------------------------------- program constants
\* pick_related_posts(..., limit: int = 3)
RelatedLimit == 3
\* _generate_gemini: the candidate model names probed with models.get
NumCandidates == 3

VARIABLES
    \* --- cli.main / publish_to_wordpress
    pc,            \* position of the CLI run
    args,          \* command-line flags: no_save, no_wordpress, no_images
    config,        \* configuration record: which credentials are set
    blog_html,     \* the HTML view of the generated content (tokens)
    local_images,  \* find_local_images(slug): sorted image numbers on disk
    has_failures,  \* display_results(...): some check failed hard
    file,          \* the local markdown file: "absent" | "saved"
    exit,          \* how the CLI run ended
    wp_result,     \* outcome of publish_to_wordpress as the caller sees it
    calls,         \* remote CMS calls made so far, in order
    summary,       \* the summary dict of publish_to_wordpress
    html_content,  \* html_content of publish_to_wordpress
    media_list,    \* media_list of publish_to_wordpress
    idx,           \* loop index of the upload loop (1-based)
    \* --- image_gen.generate_images
    gpc,           \* position inside generate_images
    provider,      \* provider policy after .lower().strip()
    packages,      \* which client packages can be imported
    prompts,       \* prompt numbers, in the order parsed
    gi,            \* loop index of the running provider batch (1-based)
    probe,         \* index of the candidate model being probed (1-based)
    paths,         \* generated_paths of the running provider batch
    tried,         \* providers whose generator was invoked, in order
    gcalls,        \* remote image-API calls made so far, in order
    prompts_file,  \* prompts.txt written by _save_prompts_fallback
    gresult,       \* outcome of generate_images
    \* --- seo.run_seo_checks / display_results
    seo_pc,        \* position of the SEO pre-check
    content,       \* the generated content, as the checks see it
    keyword,       \* the focus keyword: a sequence of words
    results,       \* what run_seo_checks returned
    \* --- image_gen.embed_images_in_markdown
    md_pc,         \* number of embed passes applied so far
    markdown,      \* the markdown content, before and after each pass
    image_paths,   \* the image files handed to embed_images_in_markdown
    \* --- the content parsers of seo, image_gen, wordpress and output
    parse_pc,      \* position of the parsing run
    text,          \* the text handed to the parser: a sequence of lines
    parsed         \* what the parser returned

cliVars == <<pc, args, blog_html, local_images, has_failures, file, exit,
             wp_result, calls, summary, html_content, media_list, idx>>
genVars == <<gpc, provider, packages, prompts, gi, probe, paths, tried, gcalls,
             prompts_file, gresult>>
seoVars == <<seo_pc, content, keyword, results>>
mdVars == <<md_pc, markdown, image_paths>>
parseVars == <<parse_pc, text, parsed>>
vars == <<pc, args, config, blog_html, local_images, has_failures, file,
          exit, wp_result, calls, summary, html_content, media_list, idx, gpc, provider,
          packages, prompts, gi, probe, paths, tried, gcalls, prompts_file,
          gresult, seo_pc, content, keyword, results, md_pc, markdown,
          image_paths, parse_pc, text, parsed>>

\* ----------------------------------------------------------------- helpers
Min(a, b) == IF a < b THEN a ELSE b

SeqsUpTo(S, n) == UNION {[1..k -> S] : k \in 0..n}

RECURSIVE SortedSeq(_)
SortedSeq(S) ==
    IF S = {} THEN <<>>
    ELSE LET m == CHOOSE x \in S : \A y \in S : x <= y
         IN  <<m>> \o SortedSeq(S \ {m})

Outcomes == {"ok", "http_error", "exception"}

Call(op, n, res) == [op |-> op, n |-> n, res |-> res]

\* ------------------------------------------------------------- HTML tokens
Ph(k) == [t |-> "ph", n |-> k]           \* <!-- [IMAGE k: ...] -->
\* <!-- [IMAGE k: ...] --> followed by <!-- Alt text: "..." -->
PhAlt(k) == [t |-> "ph_alt", n |-> k]
Img(u) == [t |-> "img", n |-> u]         \* <img src="URL of upload u" .../>
H2Sources == [t |-> "h2sources", n |-> 0] \* <h2>Sources</h2>
\* More headings for r"(<h2[^>]*>\s*Sources\s*</h2>)" under re.IGNORECASE:
H2SourcesAttr == [t |-> "h2sources", n |-> 1]  \* <h2 class="refs">Sources</h2>
H2SourcesLower == [t |-> "h2sources", n |-> 2] \* <h2>sources</h2>
H3Sources == [t |-> "h3sources", n |-> 0]      \* <h3>Sources</h3>: no match
Links(c) == [t |-> "links", n |-> c]     \* the link block, c posts

\* Placeholder numbers the generated content may carry; 10 is there because
\* the substitution pattern compares digits, not numbers.
PlaceholderNums == (1..MaxImages) \cup {10}

Htmls == SeqsUpTo({H2Sources} \cup {Ph(k) : k \in PlaceholderNums}, MaxHtmlLen)

ImageDirs == {SortedSeq(S) : S \in SUBSET (1..MaxImages)}

\* rf'<!--\s*\[?IMAGE\s*{idx}[^\]]*...': the digits of idx, then anything.
RECURSIVE DigitsPrefix(_, _)
DigitsPrefix(i, n) ==
    IF i = n THEN TRUE
    ELSE IF n < 10 THEN FALSE
    ELSE DigitsPrefix(i, n \div 10)

\* The optional "(?:\s*<!--\s*Alt\s*text:[^>]*-->)?" takes the alt comment along.
PlaceholderMatches(i, tok) ==
    tok.t \in {"ph", "ph_alt"} /\ DigitsPrefix(i, tok.n)

\* pattern.sub(img_tag, html, count=1): the first match only.
SubFirst(html, i, tag) ==
    IF \E j \in 1..Len(html) : PlaceholderMatches(i, html[j])
    THEN LET j == CHOOSE k \in 1..Len(html) :
                      /\ PlaceholderMatches(i, html[k])
                      /\ \A l \in 1..(k - 1) : ~PlaceholderMatches(i, html[l])
         IN  [html EXCEPT ![j] = tag]
    ELSE html

RECURSIVE ReplaceFrom(_, _, _)
ReplaceFrom(html, media, i) ==
    IF i > Len(media) THEN html
    ELSE ReplaceFrom(SubFirst(html, i, Img(media[i].url)), media, i + 1)

\* for idx, media in enumerate(media_list, start=1): ...
replace_image_placeholders(html, media) == ReplaceFrom(html, media, 1)

\* An alt text: the one of the alt comment of placeholder k, the empty
\* string, or f"{slug.replace('-', ' ')} image {idx}".
ParsedAlt(k) == [kind |-> "parsed", n |-> k]
EmptyAlt == [kind |-> "empty", n |-> 0]
FallbackAlt(i) == [kind |-> "fallback", n |-> i]

\* The last placeholder numbered k: "alt_map[num] = alt" overwrites.
LastPlaceholder(html, k) ==
    CHOOSE j \in 1..Len(html) :
        /\ html[j].t \in {"ph", "ph_alt"} /\ html[j].n = k
        /\ \A l \in (j + 1)..Len(html) :
               ~(html[l].t \in {"ph", "ph_alt"} /\ html[l].n = k)

\* alt = m.group(2).strip() if m.group(2) else "": every placeholder gets an
\* entry, the empty string when no alt comment follows it.
_parse_image_alt_texts(html) ==
    [k \in {html[j].n : j \in {i \in 1..Len(html) :
                                   html[i].t \in {"ph", "ph_alt"}}} |->
        IF html[LastPlaceholder(html, k)].t = "ph_alt"
        THEN ParsedAlt(k) ELSE EmptyAlt]

\* alt_map.get(idx, f"{slug.replace('-', ' ')} image {idx}")
AltFor(html, i) ==
    IF i \in DOMAIN _parse_image_alt_texts(html)
    THEN _parse_image_alt_texts(html)[i]
    ELSE FallbackAlt(i)

\* selected = [p for score, p in scored[:limit]]; posts are counted here
pick_related_posts(nposts) == Min(nposts, RelatedLimit)

build_internal_links_html(related) ==
    IF related = 0 THEN <<>> ELSE <<Links(related)>>

insert_internal_links_exact(html, links_html) ==
    IF links_html = <<>> THEN html
    ELSE IF \E j \in 1..Len(html) : html[j] = H2Sources
    THEN LET j == CHOOSE k \in 1..Len(html) :
                      /\ html[k] = H2Sources
                      /\ \A l \in 1..(k - 1) : html[l] # H2Sources
         IN  SubSeq(html, 1, j - 1) \o links_html \o SubSeq(html, j, Len(html))
    ELSE html \o links_html

insert_internal_links(html, links_html) ==
    IF links_html = <<>> THEN html
    ELSE IF \E j \in 1..Len(html) : html[j].t = "h2sources"
    THEN LET j == CHOOSE k \in 1..Len(html) :
                      /\ html[k].t = "h2sources"
                      /\ \A l \in 1..(k - 1) : html[l].t # "h2sources"
         IN  SubSeq(html, 1, j - 1) \o links_html \o SubSeq(html, j, Len(html))
    ELSE html \o links_html

\* ----------------------------------------------------- wordpress.py wrappers
\* What a wrapper does with the outcome of its request: returns, raises
\* WordPressError (status check), or lets the exception of requests through.
Raised(o) ==
    CASE o = "ok" -> "ok"
      [] o = "http_error" -> "WordPressError"
      [] OTHER -> "Exception"

CredentialsConfiguredWithoutUrl(cfg) ==
    cfg.wordpress_username /\ cfg.wordpress_app_password

\* _wp_url and _get_auth_headers raise WordPressError before any request.
CredentialsConfigured(cfg) ==
    cfg.wordpress_url /\ cfg.wordpress_username /\ cfg.wordpress_app_password

validate_credentials_returns(cfg, o) == "ok"

validate_credentials(cfg, o) ==
    IF ~CredentialsConfigured(cfg) THEN "WordPressError" ELSE Raised(o)

fetch_recent_posts(o) == Raised(o)

UploadOutcomes == {"ok", "http_error", "exception", "alt_exception"}

\* upload_image: the media POST, then the alt-text POST whose status is not
\* looked at.
upload_image(o) ==
    CASE o = "ok" -> "ok"
      [] o = "http_error" -> "WordPressError"
      [] OTHER -> "Exception"

UploadCalls(f, o) ==
    CASE o = "ok" -> <<Call("upload", f, "ok"), Call("media_alt", f, "ok")>>
      [] o = "alt_exception" ->
            <<Call("upload", f, "ok"), Call("media_alt", f, "exception")>>
      [] OTHER -> <<Call("upload", f, o)>>

create_draft_returns(o) == "ok"

create_draft(o) == Raised(o)

set_featured_image(o) == Raised(o)

set_rankmath_meta_first_only(o1, o2) == o1 = "ok"

\* set_rankmath_meta: True if any of the two requests returned 200/201;
\* o2 = "none" when the second request is not made.
set_rankmath_meta(o1, o2) == o1 = "ok" \/ o2 = "ok"

\* Approach 2 runs only when approach 1 did not return.
TriesPostMeta(o1) == o1 # "ok"

\* cli.main: wp_enabled
WpEnabled(a, cfg) ==
    ~a.no_wordpress /\ cfg.wordpress_username /\ cfg.wordpress_app_password

ImagesStatusUploaded(media) == <<"uploaded", Len(media)>>

ImagesStatus(media) ==
    IF media # <<>> THEN <<"uploaded", Len(media)>> ELSE <<"pending", 0>>

\* publish_to_wordpress, lines 524-528: what follows the upload loop.
FinishImages(html, media, sum) ==
    /\ html_content' = IF media # <<>>
                       THEN replace_image_placeholders(html, media)
                       ELSE html
    /\ media_list' = media
    /\ summary' = sum @@ ("images_status" :> ImagesStatus(media))
    /\ pc' = "wp_create"

\* An exception leaves publish_to_wordpress: the caller sees kind r.
PublishRaises(r) ==
    /\ pc' = "cli_after_publish"
    /\ wp_result' = r

PublishReturns ==
    /\ pc' = "cli_after_publish"
    /\ wp_result' = "summary"

\* ------------------------------------------------------------------ cli.main
\* Lines 118-183: template, prompt, LLM call, SEO checks.
CliGenerate ==
    /\ pc = "cli_start"
    /\ \E early \in {"none", "no_topic", "template_error", "api_error"},
          hf \in BOOLEAN :
          IF early = "none"
          THEN /\ pc' = "cli_output"
               /\ has_failures' = hf
               /\ exit' = exit
          ELSE /\ pc' = "cli_end"
               /\ has_failures' = has_failures
               /\ exit' = "exit1"
    /\ UNCHANGED <<args, config, blog_html, local_images, file, wp_result,
                   calls, summary, html_content, media_list, idx>>
    /\ UNCHANGED <<genVars, seoVars, mdVars, parseVars>>

\* Lines 185-198: --no-save, the confirmation prompt, save_blog.
CliOutput ==
    /\ pc = "cli_output"
    /\ \E confirm \in BOOLEAN :
          IF args.no_save
          THEN pc' = "cli_end" /\ exit' = "ok" /\ file' = file
          ELSE IF has_failures /\ ~confirm
          THEN pc' = "cli_end" /\ exit' = "exit0" /\ file' = file
          ELSE pc' = "cli_wordpress" /\ exit' = exit /\ file' = "saved"
    /\ UNCHANGED <<args, config, blog_html, local_images, has_failures,
                   wp_result, calls, summary, html_content, media_list, idx>>
    /\ UNCHANGED <<genVars, seoVars, mdVars, parseVars>>

\* Lines 200-229: publish when enabled, else report the saved file.
CliWordPress ==
    /\ pc = "cli_wordpress"
    /\ IF WpEnabled(args, config)
       THEN pc' = "wp_validate" /\ exit' = exit
       ELSE pc' = "cli_end" /\ exit' = "ok"
    /\ UNCHANGED <<args, config, blog_html, local_images, has_failures, file,
                   wp_result, calls, summary, html_content, media_list, idx>>
    /\ UNCHANGED <<genVars, seoVars, mdVars, parseVars>>

\* Lines 208-221: try: publish_to_wordpress ... except WordPressError.
CliAfterPublish ==
    /\ pc = "cli_after_publish"
    /\ pc' = "cli_end"
    /\ exit' = IF wp_result = "Exception" THEN "unhandled" ELSE "ok"
    /\ UNCHANGED <<args, config, blog_html, local_images, has_failures, file,
                   wp_result, calls, summary, html_content, media_list, idx>>
    /\ UNCHANGED <<genVars, seoVars, mdVars, parseVars>>

\* ------------------------------------------------------ publish_to_wordpress
\* Step 1: validate_credentials; any exception is re-raised.
WpValidate ==
    /\ pc = "wp_validate"
    /\ \E o \in Outcomes :
          LET r == validate_credentials(config, o)
          IN  /\ calls' = IF CredentialsConfigured(config)
                          THEN Append(calls, Call("validate", 0, o))
                          ELSE calls
              /\ IF r = "ok"
                 THEN pc' = "wp_fetch" /\ wp_result' = wp_result
                 ELSE PublishRaises(r)
    /\ UNCHANGED <<args, config, blog_html, local_images, has_failures, file,
                   exit, summary, html_content, media_list, idx>>
    /\ UNCHANGED <<genVars, seoVars, mdVars, parseVars>>

\* Steps 2-3 and the start of step 4: fetch_recent_posts under
\* "except WordPressError", extract the HTML, insert the link block, look
\* for local images.
WpFetch ==
    /\ pc = "wp_fetch"
    /\ \E o \in Outcomes, n \in 0..MaxPosts :
          LET r == fetch_recent_posts(o)
              related == IF r = "ok" THEN pick_related_posts(n) ELSE 0
              sum == summary @@ ("internal_links_count" :> related)
              html == insert_internal_links(
                          blog_html, build_internal_links_html(related))
          IN  /\ (o # "ok" => n = 0)
              /\ calls' = Append(calls, Call("fetch", n, o))
              /\ IF r = "Exception"
                 THEN /\ PublishRaises(r)
                      /\ UNCHANGED <<summary, html_content, media_list, idx>>
                 ELSE /\ wp_result' = wp_result
                      /\ IF ~args.no_images /\ local_images # <<>>
                         THEN /\ pc' = "wp_upload"
                              /\ idx' = 1
                              /\ html_content' = html
                              /\ media_list' = <<>>
                              /\ summary' = sum
                         ELSE /\ FinishImages(html, <<>>, sum)
                              /\ idx' = idx
    /\ UNCHANGED <<args, config, blog_html, local_images, has_failures, file,
                   exit>>
    /\ UNCHANGED <<genVars, seoVars, mdVars, parseVars>>

\* Step 4, one turn of the loop: upload_image under "except WordPressError";
\* after the last file, lines 524-528.
WpUpload ==
    /\ pc = "wp_upload"
    /\ \E o \in UploadOutcomes :
          LET f == local_images[idx]
              r == upload_image(o)
              media == IF r = "ok"
                       THEN Append(media_list,
                                   [id |-> f, url |-> f,
                                    alt_text |-> AltFor(html_content, idx)])
                       ELSE media_list
          IN  /\ calls' = calls \o UploadCalls(f, o)
              /\ IF r = "Exception"
                 THEN /\ PublishRaises(r)
                      /\ UNCHANGED <<summary, html_content, media_list, idx>>
                 ELSE /\ wp_result' = wp_result
                      /\ IF idx = Len(local_images)
                         THEN /\ FinishImages(html_content, media, summary)
                              /\ idx' = idx
                         ELSE /\ pc' = "wp_upload"
                              /\ idx' = idx + 1
                              /\ media_list' = media
                              /\ UNCHANGED <<summary, html_content>>
    /\ UNCHANGED <<args, config, blog_html, local_images, has_failures, file,
                   exit>>
    /\ UNCHANGED <<genVars, seoVars, mdVars, parseVars>>

\* Step 5: create_draft; any exception is re-raised.
WpCreate ==
    /\ pc = "wp_create"
    /\ \E o \in Outcomes :
          LET r == create_draft(o)
          IN  /\ calls' = Append(calls, Call("create", 0, o))
              /\ IF r = "ok"
                 THEN /\ pc' = "wp_rankmath"
                      /\ wp_result' = wp_result
                      /\ summary' = summary @@ ("post_id" :> 1)
                 ELSE /\ PublishRaises(r)
                      /\ summary' = summary
    /\ UNCHANGED <<args, config, blog_html, local_images, has_failures, file,
                   exit, html_content, media_list, idx>>
    /\ UNCHANGED <<genVars, seoVars, mdVars, parseVars>>

\* Lines 543-561 after set_rankmath_meta has returned ok.
AfterRankMath(ok) ==
    /\ summary' = summary @@ ("rankmath_set" :> ok)
    /\ IF media_list # <<>>
       THEN pc' = "wp_featured" /\ wp_result' = wp_result
       ELSE PublishReturns

\* Step 6, approach 1: the Rank Math endpoint, under "except Exception".
WpRankMath ==
    /\ pc = "wp_rankmath"
    /\ \E o \in Outcomes :
          /\ calls' = Append(calls, Call("rankmath", 0, o))
          /\ IF TriesPostMeta(o)
             THEN /\ pc' = "wp_postmeta"
                  /\ UNCHANGED <<wp_result, summary>>
             ELSE AfterRankMath(set_rankmath_meta(o, "none"))
    /\ UNCHANGED <<args, config, blog_html, local_images, has_failures, file,
                   exit, html_content, media_list, idx>>
    /\ UNCHANGED <<genVars, seoVars, mdVars, parseVars>>

\* Step 6, approach 2: the post-meta endpoint, under "except Exception".
WpPostMeta ==
    /\ pc = "wp_postmeta"
    /\ \E o \in Outcomes :
          /\ calls' = Append(calls, Call("postmeta", 0, o))
          /\ AfterRankMath(set_rankmath_meta(calls[Len(calls)].res, o))
    /\ UNCHANGED <<args, config, blog_html, local_images, has_failures, file,
                   exit, html_content, media_list, idx>>
    /\ UNCHANGED <<genVars, seoVars, mdVars, parseVars>>

\* Step 7: set_featured_image under "except WordPressError"; return summary.
WpFeatured ==
    /\ pc = "wp_featured"
    /\ \E o \in Outcomes :
          LET r == set_featured_image(o)
          IN  /\ calls' = Append(calls, Call("featured", media_list[1].id, o))
              /\ IF r = "Exception" THEN PublishRaises(r) ELSE PublishReturns
    /\ UNCHANGED <<args, config, blog_html, local_images, has_failures, file,
                   exit, summary, html_content, media_list, idx>>
    /\ UNCHANGED <<genVars, seoVars, mdVars, parseVars>>

\* ------------------------------------------------- image_gen.generate_images
Providers == {"auto", "gemini", "openai", "none", "other"}

PromptSeqs == SeqsUpTo(1..MaxPrompts, MaxPrompts)

GCall(op, n, res) == [op |-> op, n |-> n, res |-> res]

GeminiOps == {"gemini_list", "gemini_get", "gemini_generate"}

TriesGeminiAlways(cfg) == TRUE

\* auto: "if config.get('gemini_api_key')"
TriesGemini(cfg) == cfg.gemini_api_key

\* auto, after gemini gave nothing: "if config.get('openai_api_key')",
\* else the prompts file.
AutoAfterGemini(cfg) ==
    IF cfg.openai_api_key THEN "openai_enter" ELSE "fallback"

\* The loop over prompts starts, or has nothing to do.
StartBatch(gen, returned) ==
    /\ paths' = <<>>
    /\ gi' = 1
    /\ gpc' = IF prompts = <<>> THEN returned ELSE gen

\* Lines 246-304: resolve the provider policy.
GenStart ==
    /\ gpc = "start"
    /\ CASE provider = "none" ->
              /\ prompts_file' = TRUE
              /\ gresult' = "returned"
              /\ gpc' = "done"
         [] provider = "gemini" ->
              /\ gpc' = "gemini_enter"
              /\ UNCHANGED <<prompts_file, gresult>>
         [] provider = "openai" ->
              /\ gpc' = "openai_enter"
              /\ UNCHANGED <<prompts_file, gresult>>
         [] provider = "auto" ->
              /\ gpc' = IF TriesGemini(config) THEN "gemini_enter"
                        ELSE AutoAfterGemini(config)
              /\ UNCHANGED <<prompts_file, gresult>>
         [] OTHER ->
              /\ gresult' = "raised"
              /\ gpc' = "done"
              /\ prompts_file' = prompts_file
    /\ UNCHANGED <<provider, packages, prompts, gi, probe, paths, tried,
                   gcalls, config>>
    /\ UNCHANGED <<cliVars, seoVars, mdVars, parseVars>>

\* _generate_gemini, lines 58-70: key check, import, client.
GeminiEnter ==
    /\ gpc = "gemini_enter"
    /\ tried' = Append(tried, "gemini")
    /\ paths' = <<>>
    /\ gpc' = IF config.gemini_api_key /\ packages.genai
              THEN "gemini_list" ELSE "gemini_raised"
    /\ UNCHANGED <<provider, packages, prompts, gi, probe, gcalls,
                   prompts_file, gresult, config>>
    /\ UNCHANGED <<cliVars, seoVars, mdVars, parseVars>>

ModelAfterListingFoundOnly(o) == o = "found"

\* Lines 73-91: available_model after client.models.list() -- the first
\* imagen model of the listing, or the default name when the listing raised.
ModelAfterListing(o) == o \in {"found", "exception"}

\* Lines 72-91: client.models.list(); an error picks the default model name.
GeminiList ==
    /\ gpc = "gemini_list"
    /\ \E o \in {"found", "none", "exception"} :
          /\ gcalls' = Append(gcalls, GCall("gemini_list", 0, o))
          /\ IF ~ModelAfterListing(o)
             THEN /\ gpc' = "gemini_probe"
                  /\ probe' = 1
                  /\ UNCHANGED <<paths, gi>>
             ELSE /\ StartBatch("gemini_gen", "gemini_returned")
                  /\ probe' = probe
    /\ UNCHANGED <<provider, packages, prompts, tried, prompts_file, gresult,
                   config>>
    /\ UNCHANGED <<cliVars, seoVars, mdVars, parseVars>>

\* Lines 80-97: client.models.get(candidate); RuntimeError when none resolves.
GeminiProbe ==
    /\ gpc = "gemini_probe"
    /\ \E o \in {"ok", "exception"} :
          /\ gcalls' = Append(gcalls, GCall("gemini_get", probe, o))
          /\ IF o = "ok"
             THEN /\ StartBatch("gemini_gen", "gemini_returned")
                  /\ probe' = probe
             ELSE IF probe < NumCandidates
             THEN /\ probe' = probe + 1
                  /\ UNCHANGED <<gpc, paths, gi>>
             ELSE /\ gpc' = "gemini_raised"
                  /\ UNCHANGED <<probe, paths, gi>>
    /\ UNCHANGED <<provider, packages, prompts, tried, prompts_file, gresult,
                   config>>
    /\ UNCHANGED <<cliVars, seoVars, mdVars, parseVars>>

GeminiSavesUnchecked(o) == o # "exception"

\* Line 126: "if result.generated_images:" -- a file is written and its path
\* appended only when the response carries an image.
GeminiSaves(o) == o = "image"

\* Lines 107-142: one turn of the loop, under "except Exception".
GeminiGenerate ==
    /\ gpc = "gemini_gen"
    /\ \E o \in {"image", "empty", "exception"} :
          /\ gcalls' = Append(gcalls, GCall("gemini_generate", prompts[gi], o))
          /\ paths' = IF GeminiSaves(o) THEN Append(paths, prompts[gi]) ELSE paths
    /\ IF gi = Len(prompts)
       THEN gpc' = "gemini_returned" /\ gi' = gi
       ELSE gpc' = "gemini_gen" /\ gi' = gi + 1
    /\ UNCHANGED <<provider, packages, prompts, probe, tried, prompts_file,
                   gresult, config>>
    /\ UNCHANGED <<cliVars, seoVars, mdVars, parseVars>>

\* generate_images after _generate_gemini returned paths.
GeminiReturned ==
    /\ gpc = "gemini_returned"
    /\ IF provider = "gemini"
       THEN IF paths = <<>> /\ config.openai_api_key
            THEN gpc' = "openai_enter" /\ gresult' = gresult
            ELSE gpc' = "done" /\ gresult' = "returned"
       ELSE IF paths # <<>>
            THEN gpc' = "done" /\ gresult' = "returned"
            ELSE gpc' = AutoAfterGemini(config) /\ gresult' = gresult
    /\ UNCHANGED <<provider, packages, prompts, gi, probe, paths, tried,
                   gcalls, prompts_file, config>>
    /\ UNCHANGED <<cliVars, seoVars, mdVars, parseVars>>

\* generate_images after _generate_gemini raised: auto catches, gemini not.
GeminiRaised ==
    /\ gpc = "gemini_raised"
    /\ IF provider = "gemini"
       THEN gpc' = "done" /\ gresult' = "raised"
       ELSE gpc' = AutoAfterGemini(config) /\ gresult' = gresult
    /\ UNCHANGED <<provider, packages, prompts, gi, probe, paths, tried,
                   gcalls, prompts_file, config>>
    /\ UNCHANGED <<cliVars, seoVars, mdVars, parseVars>>

\* _generate_openai, lines 147-165: key check, import, client.
OpenAIEnter ==
    /\ gpc = "openai_enter"
    /\ tried' = Append(tried, "openai")
    /\ IF config.openai_api_key /\ packages.openai
       THEN StartBatch("openai_gen", "openai_returned")
       ELSE gpc' = "openai_raised" /\ paths' = <<>> /\ gi' = gi
    /\ UNCHANGED <<provider, packages, prompts, probe, gcalls, prompts_file,
                   gresult, config>>
    /\ UNCHANGED <<cliVars, seoVars, mdVars, parseVars>>

\* Lines 167-201: one turn of the loop (generate, then download), under
\* "except Exception".
OpenAIGenerate ==
    /\ gpc = "openai_gen"
    /\ \E o \in {"ok", "exception"} :
          /\ gcalls' = Append(gcalls, GCall("openai_generate", prompts[gi], o))
          /\ paths' = IF o = "ok" THEN Append(paths, prompts[gi]) ELSE paths
    /\ IF gi = Len(prompts)
       THEN gpc' = "openai_returned" /\ gi' = gi
       ELSE gpc' = "openai_gen" /\ gi' = gi + 1
    /\ UNCHANGED <<provider, packages, prompts, probe, tried, prompts_file,
                   gresult, config>>
    /\ UNCHANGED <<cliVars, seoVars, mdVars, parseVars>>

\* generate_images returns what _generate_openai returned, under every
\* policy that reaches it (line 264-270, 273, 291).
OpenAIReturned ==
    /\ gpc = "openai_returned"
    /\ gpc' = "done"
    /\ gresult' = "returned"
    /\ UNCHANGED <<provider, packages, prompts, gi, probe, paths, tried,
                   gcalls, prompts_file, config>>
    /\ UNCHANGED <<cliVars, seoVars, mdVars, parseVars>>

\* generate_images after _generate_openai raised: only auto catches.
OpenAIRaised ==
    /\ gpc = "openai_raised"
    /\ IF provider = "auto"
       THEN gpc' = "fallback" /\ gresult' = gresult
       ELSE gpc' = "done" /\ gresult' = "raised"
    /\ UNCHANGED <<provider, packages, prompts, gi, probe, paths, tried,
                   gcalls, prompts_file, config>>
    /\ UNCHANGED <<cliVars, seoVars, mdVars, parseVars>>

\* auto, line 295-299: return _save_prompts_fallback(prompts, slug), i.e. [].
Fallback ==
    /\ gpc = "fallback"
    /\ prompts_file' = TRUE
    /\ paths' = <<>>
    /\ gresult' = "returned"
    /\ gpc' = "done"
    /\ UNCHANGED <<provider, packages, prompts, gi, probe, tried, gcalls,
                   config>>
    /\ UNCHANGED <<cliVars, seoVars, mdVars, parseVars>>

\* ---------------------------------------------------------- specifications
IdleGen ==
    /\ gpc = "idle"
    /\ provider = "none"
    /\ packages = [genai |-> FALSE, openai |-> FALSE]
    /\ prompts = <<>>
    /\ gi = 1
    /\ probe = 1
    /\ paths = <<>>
    /\ tried = <<>>
    /\ gcalls = <<>>
    /\ prompts_file = FALSE
    /\ gresult = "none"

IdleCli ==
    /\ pc = "idle"
    /\ args = [no_save |-> FALSE, no_wordpress |-> FALSE, no_images |-> FALSE]
    /\ blog_html = <<>>
    /\ local_images = <<>>
    /\ has_failures = FALSE
    /\ file = "absent"
    /\ exit = "running"
    /\ wp_result = "none"
    /\ calls = <<>>
    /\ summary = ("slug" :> "slug")
    /\ html_content = <<>>
    /\ media_list = <<>>
    /\ idx = 1

IdleSeo ==
    /\ seo_pc = "idle"
    /\ content = <<>>
    /\ keyword = <<>>
    /\ results = <<>>

IdleMd ==
    /\ md_pc = 0
    /\ markdown = <<>>
    /\ image_paths = <<>>

IdleParse ==
    /\ parse_pc = "idle"
    /\ text = <<>>
    /\ parsed = <<>>

\* A CLI run: flags, configuration, generated content and the images
\* directory are the inputs.
Init ==
    /\ pc = "cli_start"
    /\ args \in [no_save : BOOLEAN, no_wordpress : BOOLEAN, no_images : BOOLEAN]
    /\ config \in [wordpress_url : BOOLEAN, wordpress_username : BOOLEAN,
                   wordpress_app_password : BOOLEAN,
                   gemini_api_key : {FALSE}, openai_api_key : {FALSE}]
    /\ blog_html \in Htmls
    /\ local_images \in ImageDirs
    /\ has_failures = FALSE
    /\ file = "absent"
    /\ exit = "running"
    /\ wp_result = "none"
    /\ calls = <<>>
    /\ summary = ("slug" :> "slug")
    /\ html_content = <<>>
    /\ media_list = <<>>
    /\ idx = 1
    /\ IdleGen
    /\ IdleParse
    /\ IdleSeo
    /\ IdleMd

Next ==
    \/ CliGenerate
    \/ CliOutput
    \/ CliWordPress
    \/ CliAfterPublish
    \/ WpValidate
    \/ WpFetch
    \/ WpUpload
    \/ WpCreate
    \/ WpRankMath
    \/ WpPostMeta
    \/ WpFeatured

Spec == Init /\ [][Next]_vars

\* One call of generate_images: policy, credentials, importable packages and
\* the prompt list are the inputs.
GenInit ==
    /\ gpc = "start"
    /\ provider \in Providers
    /\ config \in [wordpress_url : {FALSE}, wordpress_username : {FALSE},
                   wordpress_app_password : {FALSE},
                   gemini_api_key : BOOLEAN, openai_api_key : BOOLEAN]
    /\ packages \in [genai : BOOLEAN, openai : BOOLEAN]
    /\ prompts \in PromptSeqs
    /\ gi = 1
    /\ probe = 1
    /\ paths = <<>>
    /\ tried = <<>>
    /\ gcalls = <<>>
    /\ prompts_file = FALSE
    /\ gresult = "none"
    /\ IdleCli
    /\ IdleParse
    /\ IdleSeo
    /\ IdleMd

GenNext ==
    \/ GenStart
    \/ GeminiEnter
    \/ GeminiList
    \/ GeminiProbe
    \/ GeminiGenerate
    \/ GeminiReturned
    \/ GeminiRaised
    \/ OpenAIEnter
    \/ OpenAIGenerate
    \/ OpenAIReturned
    \/ OpenAIRaised
    \/ Fallback

SpecGen == GenInit /\ [][GenNext]_vars

\* ------------------------------------------------------ seo: the body text
\* Words are atomic and pairwise distinct; "x" is filler that no keyword
\* contains, "##" is the markdown heading marker.
Words == {"a", "b", "x"}
KwWords == {"a", "b"}
Keywords == SeqsUpTo(KwWords, MaxKwLen)

\* A body token is a word and what precedes it: a space ("sp"), a line break
\* ("nl"), or a line break and a heading marker ("h": "\n## word").
BodyTokens == [w : Words, pre : {"sp", "nl", "h"}]

\* A body is its tokens, written reps times, followed by a paragraph of pad
\* filler words.
Body(toks, reps, pad) == [toks |-> toks, reps |-> reps, pad |-> pad]

\* blog_body.split(): the words of the tokens; br marks a word that follows a
\* line break rather than a space.
RECURSIVE TokenWords(_)
TokenWords(toks) ==
    IF toks = <<>> THEN <<>>
    ELSE LET t == Head(toks)
         IN  (IF t.pre = "h"
              THEN <<[w |-> "##", br |-> TRUE], [w |-> t.w, br |-> FALSE]>>
              ELSE <<[w |-> t.w, br |-> t.pre = "nl"]>>)
             \o TokenWords(Tail(toks))

\* The words written out: the tokens' words reps times; the filler follows.
HeadWords(body) ==
    LET unit == TokenWords(body.toks)
    IN  [i \in 1..(Len(unit) * body.reps) |-> unit[((i - 1) % Len(unit)) + 1]]

\* len(words), seo.py line 235.
WordCount(body) == Len(HeadWords(body)) + body.pad

WordAt(W, i) == IF i <= Len(W) THEN W[i].w ELSE "x"

WordLen(w) == IF w = "##" THEN 2 ELSE 1

RECURSIVE SumWordLen(_, _)
SumWordLen(W, i) == IF i > Len(W) THEN 0 ELSE WordLen(W[i].w) + SumWordLen(W, i + 1)

\* len(text): the characters of the words and one separator between two words.
TextLen(body) ==
    IF WordCount(body) = 0 THEN 0
    ELSE SumWordLen(HeadWords(body), 1) + body.pad + WordCount(body) - 1

\* "keyword in text" at word i: in the text itself a line break inside the
\* phrase prevents the match (joined = FALSE); in " ".join(words) it does not.
MatchAt(W, kw, i, joined) ==
    /\ i + Len(kw) - 1 <= Len(W)
    /\ \A j \in 1..Len(kw) :
          /\ W[i + j - 1].w = kw[j]
          /\ (j > 1 /\ ~joined => ~W[i + j - 1].br)

\* "keyword in ' '.join(words[lo:hi])": a keyword of no words is in every string.
JoinedContains(W, kw, lo, hi) ==
    \E i \in lo..(hi + 1) :
        /\ i + Len(kw) - 1 <= hi
        /\ MatchAt(W, kw, i, TRUE)

\* str.count: non-overlapping occurrences, scanning from the left.
RECURSIVE CountFrom(_, _, _)
CountFrom(W, kw, from) ==
    LET hits == {i \in from..Len(W) : MatchAt(W, kw, i, FALSE)}
    IN  IF hits = {} THEN 0
        ELSE LET first == CHOOSE i \in hits : \A j \in hits : i <= j
             IN  1 + CountFrom(W, kw, first + Len(kw))

\* Line 242: text_lower.count(keyword.lower()); the empty string is counted
\* once per character position.
ExactCount(body, kw) ==
    IF kw = <<>> THEN TextLen(body) + 1 ELSE CountFrom(HeadWords(body), kw, 1)

\* Lines 250-253: the window of len(kw_words) + 1 words starting at word i.
IsVariationWindow(body, kw, i) ==
    LET W == HeadWords(body)
        hi == Min(i + Len(kw), WordCount(body))
    IN  /\ ~ \E p \in i..hi :
               /\ p + Len(kw) - 1 <= hi
               /\ \A j \in 1..Len(kw) : WordAt(W, p + j - 1) = kw[j]
        /\ \A j \in 1..Len(kw) : \E p \in i..hi : WordAt(W, p) = kw[j]

\* Lines 246-254. A window that starts in the filler holds no keyword word, so
\* only the windows starting at a written word can count.
VariationCount(body, kw) ==
    IF Len(kw) > 1
    THEN Cardinality({i \in 1..Min(WordCount(body) - Len(kw) + 1,
                                    Len(HeadWords(body))) :
                         IsVariationWindow(body, kw, i)})
    ELSE 0

\* --------------------------------------------------------- seo: the checks
\* SEOResult.name is kept as the check it names, SEOResult.detail as written
\* ("" when absent; numbers in names and details are left out).
SEOResult(check, passed, warning, detail) ==
    [check |-> check, passed |-> passed, warning |-> warning, detail |-> detail]

Range(seq) == {seq[i] : i \in 1..Len(seq)}

\* "needle in haystack" for strings given as word sequences.
SeqContains(hay, needle) ==
    \E i \in 1..(Len(hay) + 1) :
        /\ i + Len(needle) - 1 <= Len(hay)
        /\ \A j \in 1..Len(needle) : hay[i + j - 1] = needle[j]

\* The content is what the checks extract from it:
\*   title            0 when the keyword is not in the title (or there is no
\*                    title), else the character at which its first
\*                    occurrence ends
\*   meta             length of the meta description; whether it has the keyword
\*   slug             the words of the URL slug (<<>> when missing)
\*   body             _extract_blog_body(content)
\*   html_headings    the <h2>/<h3> headings of the whole content
\*   alt_texts, image_sections   "none" | "without_kw" | "with_kw"
\*   sources          the Sources section found ("none" | "md" | "html") and
\*                    its number of http(s) links
\*   internal_links   whether one of the six phrases occurs
EmptyContent ==
    [title |-> 0,
     meta |-> [len |-> 0, has_kw |-> FALSE],
     slug |-> <<>>,
     body |-> Body(<<>>, 1, 0),
     html_headings |-> <<>>,
     alt_texts |-> "none",
     image_sections |-> "none",
     sources |-> [section |-> "none", links |-> 0],
     internal_links |-> FALSE]

\* Lines 134-151.
check_keyword_in_title(c, kw) ==
    IF kw = <<>> \/ c.title \in 1..60
    THEN SEOResult("title", TRUE, FALSE, "")
    ELSE IF c.title > 60
    THEN SEOResult("title", FALSE, TRUE,
                   "keyword found but not within first 60 characters")
    ELSE SEOResult("title", FALSE, FALSE, "keyword not found in title")

\* Lines 154-163.
check_keyword_in_meta(c, kw) ==
    IF kw = <<>> \/ c.meta.has_kw
    THEN SEOResult("meta keyword", TRUE, FALSE, "")
    ELSE SEOResult("meta keyword", FALSE, FALSE, "exact-match keyword not found")

\* Lines 166-186.
check_meta_length(c) ==
    LET length == c.meta.len
    IN  IF 150 <= length /\ length <= 160
        THEN SEOResult("meta length", TRUE, FALSE, "")
        ELSE IF (140 <= length /\ length < 150) \/ (160 < length /\ length <= 170)
        THEN SEOResult("meta length", FALSE, TRUE, "target is 150-160 characters")
        ELSE SEOResult("meta length", FALSE, FALSE, "target is 150-160 characters")

\* Lines 189-200: keyword in " ".join(words[:150]).
check_keyword_in_first_paragraph(body, kw) ==
    IF JoinedContains(HeadWords(body), kw, 1, Min(150, Len(HeadWords(body))))
    THEN SEOResult("first paragraph", TRUE, FALSE, "")
    ELSE SEOResult("first paragraph", FALSE, FALSE,
                   "keyword not found in first 150 words")

SlugThresholdHalf(overlap, kw_words) == 2 * overlap >= kw_words

\* Line 216: len(overlap) >= len(kw_words) * 0.6.
SlugThreshold(overlap, kw_words) == 10 * overlap >= 6 * kw_words

\* Lines 203-228.
check_keyword_in_slug(c, kw) ==
    IF SeqContains(c.slug, kw)
    THEN SEOResult("slug", TRUE, FALSE, "")
    ELSE IF SlugThreshold(Cardinality(Range(kw) \cap Range(c.slug)),
                          Cardinality(Range(kw)))
    THEN SEOResult("slug", TRUE, FALSE, "close variation found")
    ELSE SEOResult("slug", FALSE, TRUE,
                   "keyword or close variation not found in slug")

TotalInstancesVariationOnly(exact_count, variation_count) == variation_count

\* Line 256.
TotalInstances(exact_count, variation_count) == exact_count + variation_count

DensityX10Unweighted(total_instances, kw_word_count) == total_instances * 1000

\* Line 259, times 10 * word_count so that the comparisons stay in integers:
\* density >= 0.8 is DensityX10 >= 8 * word_count.
DensityX10(total_instances, kw_word_count) ==
    total_instances * kw_word_count * 1000

\* Lines 261-283.
DensityResult(x, wc) ==
    IF 10 * wc <= x /\ x <= 20 * wc
    THEN SEOResult("density", TRUE, FALSE, "")
    ELSE IF 8 * wc <= x /\ x < 10 * wc
    THEN SEOResult("density", FALSE, TRUE, "consider adding more instances")
    ELSE IF 20 * wc < x /\ x <= 25 * wc
    THEN SEOResult("density", FALSE, TRUE, "slightly high, consider reducing")
    ELSE SEOResult("density", FALSE, FALSE,
                   IF x < 10 * wc THEN "too low" ELSE "too high")

\* Lines 231-285: (result, exact_count, total_instances).
check_keyword_density(body, kw) ==
    IF WordCount(body) = 0
    THEN [result |-> SEOResult("density", FALSE, FALSE, "no content found"),
          exact_count |-> 0, total_instances |-> 0]
    ELSE LET exact_count == ExactCount(body, kw)
             total == TotalInstances(exact_count, VariationCount(body, kw))
         IN  [result |-> DensityResult(DensityX10(total, Len(kw)), WordCount(body)),
              exact_count |-> exact_count,
              total_instances |-> total]

check_exact_match_ratio_unguarded(exact_count, total_count) ==
    IF exact_count * 100 >= 40 * total_count
    THEN SEOResult("exact-match ratio", TRUE, FALSE, "")
    ELSE SEOResult("exact-match ratio", FALSE, TRUE,
                   "consider using more exact-match keyword instances")

\* Lines 288-310.
check_exact_match_ratio(exact_count, total_count) ==
    IF total_count = 0
    THEN SEOResult("exact-match ratio", FALSE, TRUE, "no keyword instances found")
    ELSE IF exact_count * 100 >= 40 * total_count
    THEN SEOResult("exact-match ratio", TRUE, FALSE, "")
    ELSE SEOResult("exact-match ratio", FALSE, TRUE,
                   "consider using more exact-match keyword instances")

\* Line 128: the text after "## " up to the end of its line.
HeadingAt(W, i) ==
    LET e == CHOOSE k \in i..Len(W) :
                 /\ \A j \in (i + 1)..k : ~W[j].br
                 /\ (k = Len(W) \/ W[k + 1].br)
    IN  [j \in 1..(e - i) |-> W[i + j].w]

RECURSIVE MarkdownHeadingsFrom(_, _)
MarkdownHeadingsFrom(W, i) ==
    IF i > Len(W) THEN <<>>
    ELSE (IF W[i].w = "##" THEN <<HeadingAt(W, i)>> ELSE <<>>)
         \o MarkdownHeadingsFrom(W, i + 1)

\* Lines 124-131: markdown headings of the body, then the HTML headings of
\* the whole content.
extract_headings(c) ==
    MarkdownHeadingsFrom(HeadWords(c.body), 1) \o c.html_headings

HeadingMatchesExact(heading, kw) == SeqContains(heading, kw)

\* Lines 319-329.
HeadingMatches(heading, kw) ==
    \/ SeqContains(heading, kw)
    \/ LET overlap == Cardinality(Range(kw) \cap Range(heading))
           half == Cardinality(Range(kw)) \div 2
       IN  overlap >= (IF half > 1 THEN half ELSE 1)

\* Lines 313-350.
check_subheading_keywords(headings, kw) ==
    LET matches == Cardinality({i \in 1..Len(headings) :
                                    HeadingMatches(headings[i], kw)})
    IN  IF matches >= 2
        THEN SEOResult("subheadings", TRUE, FALSE, "")
        ELSE IF matches = 1
        THEN SEOResult("subheadings", FALSE, TRUE, "target is 2+ subheadings")
        ELSE SEOResult("subheadings", FALSE, FALSE,
                       "add keyword to at least 2 subheadings")

\* "any string of the list has the keyword": none does when the list is empty.
FoundIn(strings, kw) ==
    strings = "with_kw" \/ (strings = "without_kw" /\ kw = <<>>)

\* Lines 353-381.
check_image_alt_text(c, kw) ==
    IF FoundIn(c.alt_texts, kw) \/ FoundIn(c.image_sections, kw)
    THEN SEOResult("image alt text", TRUE, FALSE, "")
    ELSE SEOResult("image alt text", FALSE, TRUE,
                   "add exact-match keyword to at least one image alt text")

\* Lines 387-390: the heading markers vanish from the cleaned text.
CleanWordCount(body) ==
    WordCount(body)
    - Cardinality({i \in 1..Len(HeadWords(body)) : HeadWords(body)[i].w = "##"})

\* Lines 384-407.
check_word_count(body) ==
    LET count == CleanWordCount(body)
    IN  IF 1200 <= count /\ count <= 2000
        THEN SEOResult("word count", TRUE, FALSE, "")
        ELSE IF (1000 <= count /\ count < 1200) \/ (2000 < count /\ count <= 2200)
        THEN SEOResult("word count", FALSE, TRUE, "target: 1,200-2,000 words")
        ELSE SEOResult("word count", FALSE, FALSE, "target: 1,200-2,000 words")

check_sources_required(c) ==
    IF c.sources.section = "none"
    THEN SEOResult("sources", FALSE, FALSE, "no Sources section detected")
    ELSE IF c.sources.links >= 3
    THEN SEOResult("sources", TRUE, FALSE, "")
    ELSE SEOResult("sources", FALSE, TRUE, "target is at least 3 source links")

\* Lines 410-451.
check_sources(c) ==
    IF c.sources.section = "none"
    THEN SEOResult("sources", FALSE, TRUE, "no Sources section detected")
    ELSE IF c.sources.links >= 3
    THEN SEOResult("sources", TRUE, FALSE, "")
    ELSE SEOResult("sources", FALSE, TRUE, "target is at least 3 source links")

\* Lines 454-475.
check_internal_links(c) ==
    IF c.internal_links
    THEN SEOResult("internal links", TRUE, FALSE, "")
    ELSE SEOResult("internal links", FALSE, TRUE,
                   "Cowork will add this automatically")

run_seo_checks_short(c, kw) ==
    LET density == check_keyword_density(c.body, kw)
    IN  <<check_keyword_in_title(c, kw),
          check_keyword_in_meta(c, kw),
          check_meta_length(c),
          check_keyword_in_first_paragraph(c.body, kw),
          check_keyword_in_slug(c, kw),
          density.result>>
        \o (IF WordCount(c.body) = 0 THEN <<>>
            ELSE <<check_exact_match_ratio(density.exact_count,
                                           density.total_instances)>>)
        \o <<check_subheading_keywords(extract_headings(c), kw),
             check_image_alt_text(c, kw),
             check_word_count(c.body),
             check_sources(c),
             check_internal_links(c)>>

\* Lines 22-43.
run_seo_checks(c, kw) ==
    LET density == check_keyword_density(c.body, kw)
    IN  <<check_keyword_in_title(c, kw),
          check_keyword_in_meta(c, kw),
          check_meta_length(c),
          check_keyword_in_first_paragraph(c.body, kw),
          check_keyword_in_slug(c, kw),
          density.result,
          check_exact_match_ratio(density.exact_count, density.total_instances),
          check_subheading_keywords(extract_headings(c), kw),
          check_image_alt_text(c, kw),
          check_word_count(c.body),
          check_sources(c),
          check_internal_links(c)>>

display_results_any_non_pass(rs) ==
    Cardinality({i \in 1..Len(rs) : ~rs[i].passed}) > 0

\* Lines 46-76: failures counts the results that neither passed nor warn.
display_results(rs) ==
    Cardinality({i \in 1..Len(rs) : ~rs[i].passed /\ ~rs[i].warning}) > 0

\* cli.py line 182: seo_results = run_seo_checks(blog_content, resolved_keyword).
RunSeoChecks ==
    /\ seo_pc = "start"
    /\ results' = run_seo_checks(content, keyword)
    /\ seo_pc' = "checked"
    /\ UNCHANGED <<content, keyword, config>>
    /\ UNCHANGED <<cliVars, genVars, mdVars, parseVars>>

\* cli.py line 183: has_failures = display_results(seo_results, console).
DisplayResults ==
    /\ seo_pc = "checked"
    /\ has_failures' = display_results(results)
    /\ seo_pc' = "done"
    /\ pc' = IF pc = "cli_seo" THEN "cli_output" ELSE pc
    /\ UNCHANGED <<args, blog_html, local_images, file, exit, wp_result,
                   calls, summary, html_content, media_list, idx>>
    /\ UNCHANGED <<content, keyword, results, config>>
    /\ UNCHANGED <<genVars, mdVars, parseVars>>

\* ------------------------------------ image_gen.embed_images_in_markdown
\* Markdown content is a sequence of tokens; only image comments and image
\* references are told apart from other text.
MdPh(k) == [t |-> "ph", n |-> k]         \* <!-- IMAGE k --> or <!-- IMAGE k: ... -->
MdBracketPh(k) == [t |-> "bph", n |-> k] \* <!-- [IMAGE k: ...] -->
MdImg(k) == [t |-> "mdimg", n |-> k]     \* \n\n![Image k](images/<slug>/image-k.png)\n
MdText == [t |-> "text", n |-> 0]

MdTokens ==
    {MdText} \cup {MdPh(k) : k \in PlaceholderNums}
             \cup {MdBracketPh(k) : k \in PlaceholderNums}

Markdowns == SeqsUpTo(MdTokens, MaxMdLen)

\* An image file is its number; 0 is a file whose name has no "image-<digits>".
ImagePathLists == SeqsUpTo(0..MaxImages, MaxImages)

\* Line 323: "<!--\s*IMAGE\s*{num}\b[^>]*-->" matches the comment of exactly
\* this number, and not the bracketed form.
EmbedMatches(c, num) == {i \in 1..Len(c) : c[i] = MdPh(num)}

EmbedOneConsuming(c, name) ==
    IF name = 0 \/ EmbedMatches(c, name) = {}
    THEN c
    ELSE LET i == CHOOSE j \in EmbedMatches(c, name) :
                     \A k \in EmbedMatches(c, name) : j <= k
         IN  SubSeq(c, 1, i - 1) \o <<MdImg(name)>> \o SubSeq(c, i + 1, Len(c))

\* Lines 313-326, one turn of the loop: sub(r"\1{img_md}", content, count=1)
\* keeps the first matching comment and puts the image reference after it.
EmbedOne(c, name) ==
    IF name = 0 \/ EmbedMatches(c, name) = {}
    THEN c
    ELSE LET i == CHOOSE j \in EmbedMatches(c, name) :
                     \A k \in EmbedMatches(c, name) : j <= k
         IN  SubSeq(c, 1, i) \o <<MdImg(name)>> \o SubSeq(c, i + 1, Len(c))

RECURSIVE EmbedFrom(_, _, _)
EmbedFrom(c, ps, i) ==
    IF i > Len(ps) THEN c ELSE EmbedFrom(EmbedOne(c, ps[i]), ps, i + 1)

embed_images_in_markdown(c, ps) == EmbedFrom(c, ps, 1)

\* One application of embed_images_in_markdown to the content it last
\* returned, with the same image list.
EmbedPass ==
    /\ md_pc < 2
    /\ markdown' = embed_images_in_markdown(markdown, image_paths)
    /\ md_pc' = md_pc + 1
    /\ UNCHANGED <<image_paths, config>>
    /\ UNCHANGED <<cliVars, genVars, seoVars, parseVars>>

EmbedInit ==
    /\ md_pc = 0
    /\ markdown \in Markdowns
    /\ image_paths \in ImagePathLists
    /\ config = [wordpress_url |-> FALSE, wordpress_username |-> FALSE,
                 wordpress_app_password |-> FALSE, gemini_api_key |-> FALSE,
                 openai_api_key |-> FALSE]
    /\ IdleCli
    /\ IdleGen
    /\ IdleParse
    /\ IdleSeo

EmbedNext == EmbedPass

SpecEmbed == EmbedInit /\ [][EmbedNext]_vars

\* ------------------------------------------------ seo: the specifications
NoCredentials ==
    [wordpress_url |-> FALSE, wordpress_username |-> FALSE,
     wordpress_app_password |-> FALSE, gemini_api_key |-> FALSE,
     openai_api_key |-> FALSE]

\* run_seo_checks and display_results called on their own.
SeoAlone ==
    /\ seo_pc = "start"
    /\ results = <<>>
    /\ config = NoCredentials
    /\ IdleCli
    /\ IdleGen
    /\ IdleParse
    /\ IdleMd

SeoNext == RunSeoChecks \/ DisplayResults

\* The slug check: slugs and keywords over three keyword words and filler.
SlugKeywords == SeqsUpTo({"a", "b", "c"}, MaxSlugLen)
Slugs == SeqsUpTo({"a", "b", "c", "x"}, MaxSlugLen)

SlugInit ==
    /\ content \in {[EmptyContent EXCEPT !.slug = s] : s \in Slugs}
    /\ keyword \in SlugKeywords
    /\ SeoAlone

SpecSlug == SlugInit /\ [][SeoNext]_vars

\* The body checks: every body of up to MaxBodyLen tokens, padded with
\* filler to the word counts at which the density bands begin and end.
DensityPads == {0, 38, 48, 98, 123, 124}
DensityBodies ==
    {Body(toks, 1, pad) : toks \in SeqsUpTo(BodyTokens, MaxBodyLen),
                          pad \in DensityPads}
HtmlHeadingLists == {<<>>, << <<"a", "b">> >>}

DensityInit ==
    /\ content \in {[EmptyContent EXCEPT !.body = b, !.html_headings = h] :
                       b \in DensityBodies, h \in HtmlHeadingLists}
    /\ keyword \in Keywords
    /\ SeoAlone

SpecDensity == DensityInit /\ [][SeoNext]_vars

\* _check_keyword_density applied to two bodies of the same number of words,
\* for one keyword.
PlainBodies ==
    {Body(toks, 1, 0) : toks \in SeqsUpTo([w : Words, pre : {"sp"}], MaxPlainLen)}

CompareDensities ==
    /\ seo_pc = "start"
    /\ results' = <<check_keyword_density(content[1], keyword),
                    check_keyword_density(content[2], keyword)>>
    /\ seo_pc' = "done"
    /\ UNCHANGED <<content, keyword, config>>
    /\ UNCHANGED <<cliVars, genVars, mdVars, parseVars>>

MonotoneInit ==
    /\ content \in {p \in PlainBodies \X PlainBodies :
                       WordCount(p[1]) = WordCount(p[2])}
    /\ keyword \in Keywords
    /\ SeoAlone

MonotoneNext == CompareDensities

SpecMonotone == MonotoneInit /\ [][MonotoneNext]_vars

\* A CLI run from the SEO pre-check on (cli.py lines 181-205): documents that
\* take every check to each of its outcomes, among them an article that
\* passes, and the flags that decide what happens to the file.
ArticleUnit ==
    <<[w |-> "a", pre |-> "h"], [w |-> "b", pre |-> "sp"],
      [w |-> "a", pre |-> "nl"], [w |-> "b", pre |-> "sp"]>>

SeoBodies ==
    {Body(<<>>, 1, 0), Body(<<[w |-> "a", pre |-> "sp"]>>, 1, 0),
     Body(ArticleUnit, 5, 1500)}

SeoContents ==
    [title : {0, 60, 61},
     meta : {[len |-> 0, has_kw |-> FALSE], [len |-> 150, has_kw |-> TRUE],
             [len |-> 170, has_kw |-> TRUE]},
     slug : {<<>>, <<"a", "b">>},
     body : SeoBodies,
     html_headings : HtmlHeadingLists,
     alt_texts : {"none", "without_kw", "with_kw"},
     image_sections : {"none", "with_kw"},
     sources : {[section |-> "none", links |-> 0], [section |-> "md", links |-> 2],
                [section |-> "html", links |-> 3]},
     internal_links : BOOLEAN]

SeoKeywords == {<<>>, <<"a">>, <<"a", "b">>}

SeoCliInit ==
    /\ content \in SeoContents
    /\ keyword \in SeoKeywords
    /\ seo_pc = "start"
    /\ results = <<>>
    /\ pc = "cli_seo"
    /\ args \in [no_save : BOOLEAN, no_wordpress : BOOLEAN, no_images : {FALSE}]
    /\ config = [wordpress_url |-> TRUE, wordpress_username |-> TRUE,
                 wordpress_app_password |-> TRUE, gemini_api_key |-> FALSE,
                 openai_api_key |-> FALSE]
    /\ blog_html = <<>>
    /\ local_images = <<>>
    /\ has_failures = FALSE
    /\ file = "absent"
    /\ exit = "running"
    /\ wp_result = "none"
    /\ calls = <<>>
    /\ summary = ("slug" :> "slug")
    /\ html_content = <<>>
    /\ media_list = <<>>
    /\ idx = 1
    /\ IdleGen
    /\ IdleParse
    /\ IdleMd

SeoCliNext ==
    \/ RunSeoChecks
    \/ DisplayResults
    \/ CliOutput
    \/ CliWordPress

SpecSeo == SeoCliInit /\ [][SeoCliNext]_vars

\* ------------------------------------------------ seo: the text as lines
\* The parsers work on the generated text with line-anchored patterns, so the
\* text is a sequence of non-blank lines, each ended by a newline.  A line is
\* one of the kinds the patterns tell apart; n numbers the lines of a kind.
Line(kind, n) == [kind |-> kind, n |-> n]

VisualHeader == Line("# VISUAL FORMAT: FULL BLOG POST", 0)
HtmlHeader == Line("# HTML FORMAT", 0)
\* The same header in lower case: the first pattern is compiled with
\* re.IGNORECASE, the second is not.
HtmlHeaderLower == Line("# html format", 0)
Separator == Line("---", 0)
\* Dashes followed by blanks: "---\s*\n" takes them, "\n---\n" does not.
SeparatorTrailing == Line("--- ", 0)
TextLine(n) == Line("text", n)

\* The first line at or after `from` whose kind is in S; 0 when there is none.
FirstLine(t, S, from) ==
    IF \E j \in from..Len(t) : t[j] \in S
    THEN CHOOSE j \in from..Len(t) :
             /\ t[j] \in S
             /\ \A k \in from..(j - 1) : t[k] \notin S
    ELSE 0

\* re.search of "#\s*VISUAL FORMAT:?\s*FULL BLOG POST\s*\n(.*?)(?=\n---\n|
\* \n#\s*HTML FORMAT)": the header line, its newline, then the shortest run
\* of text that is followed by a newline and a terminator line.  The
\* terminator's newline is not the header's, so the terminator is at least
\* two lines below the header.
VisualMatch(t) ==
    LET start == FirstLine(t, {VisualHeader}, 1)
    IN  [start |-> start,
         end |-> IF start = 0 THEN 0
                 ELSE FirstLine(t, {Separator, HtmlHeader, HtmlHeaderLower},
                                start + 2)]

\* One match of "---\s*\n(.*?)(?=\n#\s*HTML FORMAT)" searched from line
\* `from` on: a dash line, then the shortest run of text that is followed by
\* a newline and the (case-sensitive) HTML header.
FallbackMatch(t, from) ==
    LET start == FirstLine(t, {Separator, SeparatorTrailing}, from)
    IN  [start |-> start,
         end |-> IF start = 0 THEN 0
                 ELSE FirstLine(t, {HtmlHeader}, start + 2)]

\* re.finditer yields non-overlapping matches: the search for the second
\* match resumes where the first one ended, in front of its HTML header.
SecondFallbackMatch(t) ==
    LET first == FallbackMatch(t, 1)
    IN  IF first.end = 0 THEN first ELSE FallbackMatch(t, first.end + 1)

Between(t, m) == SubSeq(t, m.start + 1, m.end - 1)

_extract_blog_body(t) ==
    IF VisualMatch(t).end # 0 THEN Between(t, VisualMatch(t))
    ELSE IF SecondFallbackMatch(t).end # 0
         THEN Between(t, SecondFallbackMatch(t))
         ELSE t

\* _extract_blog_body applied to one text.
ExtractBlogBody ==
    /\ parse_pc = "body_start"
    /\ parse_pc' = "body_done"
    /\ parsed' = _extract_blog_body(text)
    /\ UNCHANGED <<text, config>>
    /\ UNCHANGED <<cliVars, genVars, seoVars, mdVars>>

BodyLines == {VisualHeader, HtmlHeader, HtmlHeaderLower, Separator,
              SeparatorTrailing, TextLine(1)}

BodyTexts == SeqsUpTo(BodyLines, MaxBodyLines)

BodyInit ==
    /\ parse_pc = "body_start"
    /\ text \in BodyTexts
    /\ parsed = <<>>
    /\ config = NoCredentials
    /\ IdleCli
    /\ IdleGen
    /\ IdleSeo
    /\ IdleMd

BodyNext == ExtractBlogBody

SpecBody == BodyInit /\ [][BodyNext]_vars

\* ------------------------------------------------------ seo: the headings
MdHeading(n) == Line("## heading", n)
HtmlHeading(n) == Line("<h2>heading</h2>", n)
\* A markdown heading line whose text is an HTML heading: both patterns
\* match it.
MdHtmlHeading(n) == Line("## <h2>heading</h2>", n)

\* A captured heading text: "heading n", or "<h2>heading n</h2>" when the
\* capture keeps the tags.
Heading(n, tagged) == [n |-> n, tagged |-> tagged]

\* re.findall(r"^#{2,3}\s+(.+)$", ..., re.MULTILINE): the rest of every line
\* that starts with two or three hashes and a blank, top to bottom.
RECURSIVE MarkdownHeadings(_)
MarkdownHeadings(t) ==
    IF t = <<>> THEN <<>>
    ELSE (IF Head(t).kind = "## heading"
          THEN <<Heading(Head(t).n, FALSE)>>
          ELSE IF Head(t).kind = "## <h2>heading</h2>"
               THEN <<Heading(Head(t).n, TRUE)>>
               ELSE <<>>)
         \o MarkdownHeadings(Tail(t))

\* re.findall(r"<h[23][^>]*>(.*?)</h[23]>", ..., re.IGNORECASE): what stands
\* between the tags of every h2/h3 element, top to bottom.
RECURSIVE HtmlHeadings(_)
HtmlHeadings(t) ==
    IF t = <<>> THEN <<>>
    ELSE (IF Head(t).kind \in {"<h2>heading</h2>", "## <h2>heading</h2>"}
          THEN <<Heading(Head(t).n, FALSE)>>
          ELSE <<>>)
         \o HtmlHeadings(Tail(t))

_extract_headings_html_first(t) ==
    HtmlHeadings(t) \o MarkdownHeadings(_extract_blog_body(t))

_extract_headings(t) ==
    MarkdownHeadings(_extract_blog_body(t)) \o HtmlHeadings(t)

\* _extract_headings applied to one text.
ExtractHeadings ==
    /\ parse_pc = "headings_start"
    /\ parse_pc' = "headings_done"
    /\ parsed' = _extract_headings(text)
    /\ UNCHANGED <<text, config>>
    /\ UNCHANGED <<cliVars, genVars, seoVars, mdVars>>

HeadingLines == {VisualHeader, Separator, TextLine(1), MdHeading(1),
                 MdHeading(2), HtmlHeading(1), HtmlHeading(2),
                 MdHtmlHeading(1)}

HeadingTexts == SeqsUpTo(HeadingLines, MaxHeadingLines)

HeadingsInit ==
    /\ parse_pc = "headings_start"
    /\ text \in HeadingTexts
    /\ parsed = <<>>
    /\ config = NoCredentials
    /\ IdleCli
    /\ IdleGen
    /\ IdleSeo
    /\ IdleMd

HeadingsNext == ExtractHeadings

SpecHeadings == HeadingsInit /\ [][HeadingsNext]_vars

\* --------------------------------------- seo / wordpress: the metadata block
\* A metadata line "**<label>:** <value>", named by the key its value is
\* stored under; n numbers the values.
MetaLine(field, n) == Line(field, n)
\* "**URL Slug:** `<value>`": the value written in backticks.
QuotedSlugLine(n) == Line("slug in backticks", n)
\* A line of blanks only.
Blank == Line(" ", 0)

\* A captured value: value n, with its backticks when the capture has them.
Value(n, quoted) == [n |-> n, quoted |-> quoted]

SeoFields == {"title", "keyword", "meta_description", "slug", "article_type"}
WpFields == {"title", "keyword", "meta_description", "slug"}

\* The lines that re.search(r"\*\*<label>:\*\*\s*(.+)") matches for a key.
FieldLines(field) ==
    {l \in [kind : {field, "slug in backticks"}, n : 1..MaxValues] :
         l.kind = field \/ field = "slug"}

HasField(t, field) == FirstLine(t, FieldLines(field), 1) # 0

\* group(1).strip() of the first matching line.
FieldValue(t, field) ==
    LET l == t[FirstLine(t, FieldLines(field), 1)]
    IN  Value(l.n, l.kind = "slug in backticks")

\* re.sub(r"[`*]", "", slug)
CleanSlug(v) == Value(v.n, FALSE)

_parse_metadata(t) ==
    [field \in {f \in SeoFields : HasField(t, f)} |-> FieldValue(t, field)]

parse_metadata(t) ==
    [field \in {f \in WpFields : HasField(t, f)} |->
        IF field = "slug" THEN CleanSlug(FieldValue(t, field))
        ELSE FieldValue(t, field)]

\* ------------------------------------------------ image_gen: image prompts
\* "## Image <n>: <title>"
ImageHeader(n) == Line("## Image", n)
\* An image number written with more digits than the interpreter converts
\* (sys.get_int_max_str_digits(), 4300 by default since Python 3.11).
LongNumber == 0
\* A line of three backticks, and one with the language tag: "```html".
Fence == Line("fence", 0)
HtmlFence == Line("fence html", 0)
Fences == {Fence, HtmlFence}

\* .strip() of a run of lines: the blank lines at both ends go.
RECURSIVE Strip(_)
Strip(s) ==
    IF s = <<>> THEN s
    ELSE IF Head(s) = Blank THEN Strip(Tail(s))
    ELSE IF s[Len(s)] = Blank THEN Strip(SubSeq(s, 1, Len(s) - 1))
    ELSE s

ImageHeaders == {ImageHeader(n) : n \in 0..MaxPrompts}

\* The matches of "##\s*Image\s*(\d+):\s*(.+?)\n.*?```[^\n]*\n(.+?)```" from
\* line `from` on: a header line, the first fence line below it, and the
\* first fence below that with at least one character in between; the next
\* match is searched below the closing fence.
RECURSIVE PromptMatches(_, _)
PromptMatches(t, from) ==
    LET h == FirstLine(t, ImageHeaders, from)
        open == IF h = 0 THEN 0 ELSE FirstLine(t, Fences, h + 1)
        close == IF open = 0 THEN 0 ELSE FirstLine(t, Fences, open + 2)
    IN  IF close = 0 THEN <<>>
        ELSE <<[number |-> t[h].n, title |-> t[h].n,
                prompt |-> Strip(SubSeq(t, open + 1, close - 1))]>>
             \o PromptMatches(t, close + 1)

\* int(match.group(1)) of an over-long digit string raises ValueError on an
\* interpreter with the conversion limit and returns on one without.
IntOutcomes == {"int", "ValueError"}

parse_image_prompts(t, o) ==
    LET matches == PromptMatches(t, 1)
    IN  IF o = "ValueError"
           /\ \E i \in 1..Len(matches) : matches[i].number = LongNumber
        THEN [raised |-> TRUE, value |-> <<>>]
        ELSE [raised |-> FALSE, value |-> matches]

\* ------------------------------------------------ wordpress: HTML sections
\* "# HTML FORMAT: SECTION <i> OF 3"
SectionHeader(i) == Line("# HTML FORMAT: SECTION OF 3", i)

\* Lines that start with "# HTML FORMAT".
HtmlFormatLines == {SectionHeader(i) : i \in 1..3} \cup {HtmlHeader}

\* re.sub(r"^```html?\s*\n?", "", ...) takes a leading fence that carries
\* the tag ("```htm" at least); re.sub(r"\n?```\s*$", "", ...) takes a
\* trailing fence that carries none.
StripFences(s) ==
    LET opened == IF s # <<>> /\ Head(s) = HtmlFence THEN Tail(s) ELSE s
    IN  IF opened # <<>> /\ opened[Len(opened)] = Fence
        THEN SubSeq(opened, 1, Len(opened) - 1)
        ELSE opened

\* The text of section i: "\s*\n" takes the header's newline and the blank
\* lines below it; the text runs from the first line after them down to the
\* next line that starts with "# HTML FORMAT" (one line further down at the
\* earliest) or to the end of the text.
SectionText(t, i) ==
    LET h == FirstLine(t, {SectionHeader(i)}, 1)
        p == FirstLine(t, Range(t) \ {Blank}, h + 1)
        e == FirstLine(t, HtmlFormatLines, p + 1)
    IN  IF h = 0 \/ p = 0 THEN <<>>
        ELSE Strip(StripFences(Strip(
                 SubSeq(t, p, IF e = 0 THEN Len(t) ELSE e - 1))))

extract_html_sections(t) ==
    SectionText(t, 1) \o SectionText(t, 2) \o SectionText(t, 3)

\* ------------------------------------------- one parser applied to one text
ParseMetadata ==
    /\ parse_pc = "metadata_start"
    /\ parse_pc' = "metadata_done"
    /\ parsed' = _parse_metadata(text)
    /\ UNCHANGED <<text, config>>
    /\ UNCHANGED <<cliVars, genVars, seoVars, mdVars>>

WpParseMetadata ==
    /\ parse_pc = "wp_metadata_start"
    /\ parse_pc' = "wp_metadata_done"
    /\ parsed' = parse_metadata(text)
    /\ UNCHANGED <<text, config>>
    /\ UNCHANGED <<cliVars, genVars, seoVars, mdVars>>

ParseImagePrompts ==
    /\ parse_pc = "prompts_start"
    /\ \E o \in IntOutcomes :
           /\ parse_pc' = IF parse_image_prompts(text, o).raised
                          THEN "prompts_raised" ELSE "prompts_done"
           /\ parsed' = parse_image_prompts(text, o).value
    /\ UNCHANGED <<text, config>>
    /\ UNCHANGED <<cliVars, genVars, seoVars, mdVars>>

ExtractHtmlSections ==
    /\ parse_pc = "sections_start"
    /\ parse_pc' = "sections_done"
    /\ parsed' = extract_html_sections(text)
    /\ UNCHANGED <<text, config>>
    /\ UNCHANGED <<cliVars, genVars, seoVars, mdVars>>

ParserStarts == {"metadata_start", "wp_metadata_start", "body_start",
                 "headings_start", "prompts_start", "sections_start"}

ParseLines == {QuotedSlugLine(1), Blank, Fence, HtmlFence, ImageHeader(1),
               ImageHeader(LongNumber), SectionHeader(1), MdHeading(1)}

ParseTexts == SeqsUpTo(ParseLines, MaxParseLines)

ParseInit ==
    /\ parse_pc \in ParserStarts
    /\ text \in ParseTexts
    /\ parsed = <<>>
    /\ config = NoCredentials
    /\ IdleCli
    /\ IdleGen
    /\ IdleSeo
    /\ IdleMd

ParseNext ==
    \/ ParseMetadata
    \/ WpParseMetadata
    \/ ExtractBlogBody
    \/ ExtractHeadings
    \/ ParseImagePrompts
    \/ ExtractHtmlSections

SpecParse == ParseInit /\ [][ParseNext]_vars

\* ---------------------------------------------------- upload_images_command
\* The command ends: returns, or lets exception r through.
CommandEnds(r) ==
    /\ pc' = "uic_end"
    /\ wp_result' = r

FindOutcomes == {"ok", "empty", "http_error", "exception"}

PatchesContentAlways(media) == TRUE

\* Line 615: "if not media_list: return".
PatchesContent(media) == media # <<>>

\* Lines 566-599: find_local_images, _wp_url and _get_auth_headers, then the
\* GET for the draft with this slug; the draft's rendered content is what
\* the response carries.
UicFind ==
    /\ pc = "uic_find"
    /\ IF local_images = <<>>
       THEN /\ CommandEnds("returned")
            /\ UNCHANGED <<calls, blog_html, html_content>>
       ELSE IF ~CredentialsConfigured(config)
       THEN /\ CommandEnds("WordPressError")
            /\ UNCHANGED <<calls, blog_html, html_content>>
       ELSE \E o \in FindOutcomes, html \in Htmls :
               /\ (o # "ok" => html = <<>>)
               /\ calls' = Append(calls, Call("find_draft", 0, o))
               /\ blog_html' = html
               /\ html_content' = html
               /\ CASE o = "ok" -> pc' = "uic_upload" /\ wp_result' = wp_result
                    [] o = "exception" -> CommandEnds("Exception")
                    [] OTHER -> CommandEnds("returned")
    /\ idx' = 1
    /\ media_list' = <<>>
    /\ UNCHANGED <<args, config, local_images, has_failures, file, exit,
                   summary>>
    /\ UNCHANGED <<genVars, seoVars, mdVars, parseVars>>

\* Lines 606-617, one turn of the loop: upload_image under
\* "except WordPressError"; after the last file, the check for an empty
\* media_list.
UicUpload ==
    /\ pc = "uic_upload"
    /\ \E o \in UploadOutcomes :
          LET f == local_images[idx]
              r == upload_image(o)
              media == IF r = "ok"
                       THEN Append(media_list,
                                   [id |-> f, url |-> f,
                                    alt_text |-> AltFor(html_content, idx)])
                       ELSE media_list
          IN  /\ calls' = calls \o UploadCalls(f, o)
              /\ IF r = "Exception"
                 THEN /\ CommandEnds(r)
                      /\ UNCHANGED <<media_list, idx>>
                 ELSE /\ media_list' = media
                      /\ IF idx < Len(local_images)
                         THEN /\ idx' = idx + 1
                              /\ UNCHANGED <<pc, wp_result>>
                         ELSE /\ idx' = idx
                              /\ IF PatchesContent(media)
                                 THEN pc' = "uic_patch"
                                      /\ wp_result' = wp_result
                                 ELSE CommandEnds("returned")
    /\ UNCHANGED <<args, config, blog_html, local_images, has_failures, file,
                   exit, summary, html_content>>
    /\ UNCHANGED <<genVars, seoVars, mdVars, parseVars>>

\* Lines 620-632: replace_image_placeholders, then the POST of the content;
\* a status other than 200/201 ends the command.
UicPatch ==
    /\ pc = "uic_patch"
    /\ html_content' = replace_image_placeholders(html_content, media_list)
    /\ \E o \in Outcomes :
          /\ calls' = Append(calls, Call("patch", 0, o))
          /\ CASE o = "ok" -> pc' = "uic_featured" /\ wp_result' = wp_result
               [] o = "exception" -> CommandEnds("Exception")
               [] OTHER -> CommandEnds("returned")
    /\ UNCHANGED <<args, config, blog_html, local_images, has_failures, file,
                   exit, summary, media_list, idx>>
    /\ UNCHANGED <<genVars, seoVars, mdVars, parseVars>>

\* Lines 635-643: set_featured_image under "except WordPressError".
UicFeatured ==
    /\ pc = "uic_featured"
    /\ \E o \in Outcomes :
          /\ calls' = Append(calls, Call("featured", media_list[1].id, o))
          /\ CommandEnds(IF set_featured_image(o) = "Exception"
                         THEN "Exception" ELSE "returned")
    /\ UNCHANGED <<args, config, blog_html, local_images, has_failures, file,
                   exit, summary, html_content, media_list, idx>>
    /\ UNCHANGED <<genVars, seoVars, mdVars, parseVars>>

\* One run of "blog --upload-images <slug>": the configuration and the
\* images directory are the inputs.
UploadInit ==
    /\ pc = "uic_find"
    /\ args = [no_save |-> FALSE, no_wordpress |-> FALSE, no_images |-> FALSE]
    /\ config \in [wordpress_url : BOOLEAN, wordpress_username : BOOLEAN,
                   wordpress_app_password : BOOLEAN,
                   gemini_api_key : {FALSE}, openai_api_key : {FALSE}]
    /\ blog_html = <<>>
    /\ local_images \in ImageDirs
    /\ has_failures = FALSE
    /\ file = "absent"
    /\ exit = "running"
    /\ wp_result = "none"
    /\ calls = <<>>
    /\ summary = ("slug" :> "slug")
    /\ html_content = <<>>
    /\ media_list = <<>>
    /\ idx = 1
    /\ IdleGen
    /\ IdleParse
    /\ IdleSeo
    /\ IdleMd

UploadNext ==
    \/ UicFind
    \/ UicUpload
    \/ UicPatch
    \/ UicFeatured

SpecUpload == UploadInit /\ [][UploadNext]_vars

\* ------------------------------------- every entry point that needs a credential
\* cli.main after save_blog (line 198), in front of the WordPress step.
SavedInit ==
    /\ pc = "cli_wordpress"
    /\ args \in [no_save : {FALSE}, no_wordpress : BOOLEAN,
                 no_images : BOOLEAN]
    /\ config \in [wordpress_url : BOOLEAN, wordpress_username : BOOLEAN,
                   wordpress_app_password : BOOLEAN,
                   gemini_api_key : {FALSE}, openai_api_key : {FALSE}]
    /\ blog_html = <<Ph(1)>>
    /\ local_images \in ImageDirs
    /\ has_failures = FALSE
    /\ file = "saved"
    /\ exit = "running"
    /\ wp_result = "none"
    /\ calls = <<>>
    /\ summary = ("slug" :> "slug")
    /\ html_content = <<>>
    /\ media_list = <<>>
    /\ idx = 1
    /\ IdleGen
    /\ IdleParse
    /\ IdleSeo
    /\ IdleMd

\* A run of the publishing step, of the upload command, or of
\* generate_images.
ConfigInit == SavedInit \/ UploadInit \/ GenInit

ConfigNext ==
    \/ CliWordPress
    \/ CliAfterPublish
    \/ WpValidate
    \/ WpFetch
    \/ WpUpload
    \/ WpCreate
    \/ WpRankMath
    \/ WpPostMeta
    \/ WpFeatured
    \/ UicFind
    \/ UicUpload
    \/ UicPatch
    \/ UicFeatured
    \/ GenStart
    \/ GeminiEnter
    \/ GeminiList
    \/ GeminiProbe
    \/ GeminiGenerate
    \/ GeminiReturned
    \/ GeminiRaised
    \/ OpenAIEnter
    \/ OpenAIGenerate
    \/ OpenAIReturned
    \/ OpenAIRaised
    \/ Fallback

SpecConfig == ConfigInit /\ [][ConfigNext]_vars

\* One call of publish_to_wordpress: the images flag, the configuration, the
\* HTML of the content and the images directory are the inputs.
PublishInit ==
    /\ pc = "wp_validate"
    /\ args \in [no_save : {FALSE}, no_wordpress : {FALSE},
                 no_images : BOOLEAN]
    /\ config \in [wordpress_url : BOOLEAN, wordpress_username : BOOLEAN,
                   wordpress_app_password : BOOLEAN,
                   gemini_api_key : {FALSE}, openai_api_key : {FALSE}]
    /\ blog_html \in Htmls
    /\ local_images \in ImageDirs
    /\ has_failures = FALSE
    /\ file = "saved"
    /\ exit = "running"
    /\ wp_result = "none"
    /\ calls = <<>>
    /\ summary = ("slug" :> "slug")
    /\ html_content = <<>>
    /\ media_list = <<>>
    /\ idx = 1
    /\ IdleGen
    /\ IdleParse
    /\ IdleSeo
    /\ IdleMd

PublishNext ==
    \/ WpValidate
    \/ WpFetch
    \/ WpUpload
    \/ WpCreate
    \/ WpRankMath
    \/ WpPostMeta
    \/ WpFeatured

SpecPublish == PublishInit /\ [][PublishNext]_vars

\* ------------------------------------ publish_to_wordpress: the link block
LinkHtmls ==
    SeqsUpTo({H2Sources, H2SourcesAttr, H2SourcesLower, H3Sources, Ph(1)},
             MaxHtmlLen)

\* publish_to_wordpress in front of step 2, with nothing to upload.
LinksInit ==
    /\ pc = "wp_fetch"
    /\ args = [no_save |-> FALSE, no_wordpress |-> FALSE, no_images |-> FALSE]
    /\ config = [wordpress_url |-> TRUE, wordpress_username |-> TRUE,
                 wordpress_app_password |-> TRUE,
                 gemini_api_key |-> FALSE, openai_api_key |-> FALSE]
    /\ blog_html \in LinkHtmls
    /\ local_images = <<>>
    /\ has_failures = FALSE
    /\ file = "saved"
    /\ exit = "running"
    /\ wp_result = "none"
    /\ calls = <<Call("validate", 0, "ok")>>
    /\ summary = ("slug" :> "slug")
    /\ html_content = <<>>
    /\ media_list = <<>>
    /\ idx = 1
    /\ IdleGen
    /\ IdleParse
    /\ IdleSeo
    /\ IdleMd

LinksNext == WpFetch

SpecLinks == LinksInit /\ [][LinksNext]_vars

\* ------------------------------------ publish_to_wordpress: the alt texts
AltHtmls ==
    SeqsUpTo({Ph(k) : k \in 1..MaxImages} \cup {PhAlt(k) : k \in 1..MaxImages},
             MaxHtmlLen)

\* publish_to_wordpress in front of step 2, with images to upload.
AltInit ==
    /\ pc = "wp_fetch"
    /\ args = [no_save |-> FALSE, no_wordpress |-> FALSE, no_images |-> FALSE]
    /\ config = [wordpress_url |-> TRUE, wordpress_username |-> TRUE,
                 wordpress_app_password |-> TRUE,
                 gemini_api_key |-> FALSE, openai_api_key |-> FALSE]
    /\ blog_html \in AltHtmls
    /\ local_images \in ImageDirs
    /\ has_failures = FALSE
    /\ file = "saved"
    /\ exit = "running"
    /\ wp_result = "none"
    /\ calls = <<Call("validate", 0, "ok")>>
    /\ summary = ("slug" :> "slug")
    /\ html_content = <<>>
    /\ media_list = <<>>
    /\ idx = 1
    /\ IdleGen
    /\ IdleParse
    /\ IdleSeo
    /\ IdleMd

AltNext ==
    \/ WpFetch
    \/ WpUpload

SpecAlt == AltInit /\ [][AltNext]_vars

\* ------------------------------------- output / wordpress: the slug of a run
\* Here the keyword is a sequence of characters: "a" stands for a lowercase
\* letter or digit, "A" for an uppercase letter, "'" for any other
\* character that is neither whitespace nor a dash.
KeywordChars == {"a", "A", " ", "-", "'"}

\* str.lower()
Lower(s) == [i \in DOMAIN s |-> IF s[i] = "A" THEN "a" ELSE s[i]]

IsSlugChar(c) == c \in {"a", " ", "-"}

\* str.strip()
RECURSIVE StripSpaces(_)
StripSpaces(s) ==
    IF s = <<>> THEN s
    ELSE IF Head(s) = " " THEN StripSpaces(Tail(s))
    ELSE IF s[Len(s)] = " " THEN StripSpaces(SubSeq(s, 1, Len(s) - 1))
    ELSE s

\* re.sub(run of c, "-", s): every maximal run of c becomes one dash.
RECURSIVE RunsToDash(_, _)
RunsToDash(s, c) ==
    IF s = <<>> THEN s
    ELSE IF Head(s) # c THEN <<Head(s)>> \o RunsToDash(Tail(s), c)
    ELSE IF Tail(s) # <<>> /\ Head(Tail(s)) = c THEN RunsToDash(Tail(s), c)
    ELSE <<"-">> \o RunsToDash(Tail(s), c)

\* str.replace(" ", "-")
ReplaceSpaces(s) == [i \in DOMAIN s |-> IF s[i] = " " THEN "-" ELSE s[i]]

\* extract_slug, lines 18-23: the slug generated from the keyword.
KeywordSlug(kw) ==
    RunsToDash(
        RunsToDash(StripSpaces(SelectSeq(Lower(kw), IsSlugChar)), " "), "-")

extract_slug(t, kw) ==
    IF HasField(t, "slug") THEN CleanSlug(FieldValue(t, "slug"))
    ELSE KeywordSlug(kw)

\* publish_to_wordpress, line 463:
\* metadata.get("slug", keyword.lower().replace(" ", "-"))
PublishSlug(t, kw) ==
    IF "slug" \in DOMAIN parse_metadata(t) THEN parse_metadata(t)["slug"]
    ELSE ReplaceSpaces(Lower(kw))

\* cli.main, line 198: save_blog names the file after extract_slug.
SaveBlog ==
    /\ parse_pc = "save_start"
    /\ parse_pc' = "saved"
    /\ parsed' = [file_slug |-> extract_slug(text, keyword)]
    /\ UNCHANGED <<text, config>>
    /\ UNCHANGED <<cliVars, genVars, seoVars, mdVars>>

\* cli.main, line 209, and publish_to_wordpress up to line 464: the slug of
\* the images directory and of the draft.
PublishWithSlug ==
    /\ parse_pc = "saved"
    /\ parse_pc' = "publishing"
    /\ parsed' = [file_slug |-> parsed.file_slug,
                  draft_slug |-> PublishSlug(text, keyword)]
    /\ UNCHANGED <<text, config>>
    /\ UNCHANGED <<cliVars, genVars, seoVars, mdVars>>

SlugLines == {MetaLine("slug", 1), QuotedSlugLine(2), MetaLine("title", 1)}

SlugTexts == SeqsUpTo(SlugLines, MaxSlugLines)

KeywordStrings == SeqsUpTo(KeywordChars, MaxKeywordChars) \ {<<>>}

SaveInit ==
    /\ parse_pc = "save_start"
    /\ text \in SlugTexts
    /\ keyword \in KeywordStrings
    /\ parsed = <<>>
    /\ config = NoCredentials
    /\ seo_pc = "idle"
    /\ content = <<>>
    /\ results = <<>>
    /\ IdleCli
    /\ IdleGen
    /\ IdleMd

SaveNext == SaveBlog \/ PublishWithSlug

SpecSave == SaveInit /\ [][SaveNext]_vars

\* ------------------------------------------------- vocabulary of the claims
WpPcs == {"wp_validate", "wp_fetch", "wp_upload", "wp_create", "wp_rankmath",
          "wp_postmeta", "wp_featured"}

\* publish_to_wordpress has been called in this run.
PublishCalled == pc \in WpPcs \/ wp_result # "none"

PublishRaised == wp_result \in {"WordPressError", "Exception"}

HasCall(op) == \E i \in 1..Len(calls) : calls[i].op = op

FailedCall(op) == \E i \in 1..Len(calls) : calls[i].op = op /\ calls[i].res # "ok"

LastCallIs(op) == calls # <<>> /\ calls[Len(calls)].op = op

IsUpload(c) == c.op = "upload"

\* The files whose upload was attempted, in order.
AttemptedUploads == [i \in 1..Len(SelectSeq(calls, IsUpload)) |->
                        SelectSeq(calls, IsUpload)[i].n]

\* upload_image returned for the call at position i: both requests went through.
UploadReturned(i) ==
    /\ calls[i].op = "upload" /\ calls[i].res = "ok"
    /\ i < Len(calls) /\ calls[i + 1].op = "media_alt" /\ calls[i + 1].res = "ok"

RECURSIVE ReturnedFrom(_)
ReturnedFrom(i) ==
    IF i > Len(calls) THEN <<>>
    ELSE (IF UploadReturned(i) THEN <<calls[i].n>> ELSE <<>>) \o ReturnedFrom(i + 1)

\* The files whose upload succeeded, in order.
SuccessfulUploads == ReturnedFrom(1)

MediaFiles == [i \in 1..Len(media_list) |-> media_list[i].url]

\* The upload stage of publish_to_wordpress is over (or the run is).
PastImages == PublishCalled /\ pc \notin {"wp_validate", "wp_fetch", "wp_upload"}

\* C1: in publish_to_wordpress, when credential validation fails (missing
\* configuration, an error status, or a failing request), the error reaches
\* the caller and nothing else runs: the validation request is the only
\* remote call of the run and no summary is returned.
C1_AuthFailureAborts ==
    LET failed == /\ PublishCalled
                  /\ pc # "wp_validate"
                  /\ \/ ~CredentialsConfigured(config)
                     \/ calls[1].res # "ok"
    IN  failed =>
          /\ PublishRaised
          /\ pc \in {"cli_after_publish", "cli_end"}
          /\ \A i \in 1..Len(calls) : i = 1 /\ calls[i].op = "validate"
          /\ "post_id" \notin DOMAIN summary

C1_Witness ==
    /\ pc = "cli_end"
    /\ wp_result = "WordPressError"
    /\ calls = <<Call("validate", 0, "http_error")>>

\* C2: in publish_to_wordpress, when draft creation fails the error is raised
\* to the caller, no summary is returned, and neither the SEO-metadata update
\* nor the featured-image update is attempted.
C2_DraftFailureAborts ==
    FailedCall("create") =>
      /\ LastCallIs("create")
      /\ PublishRaised
      /\ pc \in {"cli_after_publish", "cli_end"}
      /\ "post_id" \notin DOMAIN summary
      /\ ~HasCall("rankmath") /\ ~HasCall("postmeta") /\ ~HasCall("featured")

C2_Witness ==
    /\ pc = "cli_end"
    /\ wp_result = "WordPressError"
    /\ media_list # <<>>
    /\ calls[Len(calls)] = Call("create", 0, "http_error")

\* C3: in every CLI run that reaches publishing, the local markdown file is
\* saved before the first remote CMS call, no failure of a publish stage
\* removes it, and the run never ends with an unhandled error.
C3_LocalFileSurvives ==
    /\ (calls # <<>> => file = "saved")
    /\ (PublishCalled => file = "saved")
    /\ (PublishCalled /\ pc = "cli_end" => exit = "ok")

\* C4: in publish_to_wordpress, whenever the related-post fetch fails, for
\* any reason the remote call can fail, the publish is not aborted by it: it
\* goes on with zero related posts (internal_links_count = 0, no link block).
C4_FetchFailureNonFatal ==
    FailedCall("fetch") =>
      /\ (LastCallIs("fetch") => ~PublishRaised)
      /\ "internal_links_count" \in DOMAIN summary
      /\ summary["internal_links_count"] = 0
      /\ \A j \in 1..Len(html_content) : html_content[j].t # "links"

\* C5: in the upload batch of publish_to_wordpress the failure of one upload
\* never prevents later uploads: once the batch is over, every local image
\* file was attempted exactly once and media_list holds exactly the
\* successful uploads, in file order.
C5_UploadBatchContinues ==
    PastImages /\ HasCall("upload") =>
      /\ AttemptedUploads = local_images
      /\ MediaFiles = SuccessfulUploads

\* C6: after placeholder substitution, the placeholder numbered N (its first
\* occurrence) is replaced by the embed tag with the URL of the uploaded image
\* whose file is image-N, and a placeholder whose number has no successful
\* upload is left untouched.
C6_PlaceholderGetsItsImage ==
    PastImages /\ media_list # <<>> /\ "images_status" \in DOMAIN summary =>
      LET html0 == insert_internal_links(blog_html,
                       build_internal_links_html(summary["internal_links_count"]))
          uploaded == {media_list[i].url : i \in 1..Len(media_list)}
          first(j) == \A l \in 1..(j - 1) : html0[l] # html0[j]
      IN  /\ Len(html_content) = Len(html0)
          /\ \A j \in 1..Len(html0) :
                IF html0[j].t = "ph"
                THEN IF html0[j].n \in uploaded
                     THEN first(j) => html_content[j] = Img(html0[j].n)
                     ELSE html_content[j] = html0[j]
                ELSE html_content[j] = html0[j]

\* C7: set_rankmath_meta tries the plugin endpoint first and the post-meta
\* endpoint only if the first attempt did not succeed; it returns true iff
\* one of the two attempts succeeded; a failed or erroring request never
\* raises; publish_to_wordpress records the result as rankmath_set next to
\* the post id, whatever the result.
C7_RankMathBestEffort ==
    LET r == CHOOSE i \in 1..Len(calls) : calls[i].op = "rankmath"
        ok1 == calls[r].res = "ok"
        ok2 == r < Len(calls) /\ calls[r + 1].op = "postmeta"
                  /\ calls[r + 1].res = "ok"
        over == pc \notin {"wp_rankmath", "wp_postmeta"}
    IN  /\ (HasCall("postmeta") =>
               /\ HasCall("rankmath")
               /\ calls[r + 1].op = "postmeta"
               /\ ~ok1)
        /\ (HasCall("rankmath") /\ ~ok1 /\ over => HasCall("postmeta"))
        /\ (HasCall("rankmath") /\ over =>
               /\ "rankmath_set" \in DOMAIN summary
               /\ summary["rankmath_set"] = (ok1 \/ ok2)
               /\ "post_id" \in DOMAIN summary
               /\ (PublishRaised => HasCall("featured")))
        /\ (wp_result = "summary" =>
               "rankmath_set" \in DOMAIN summary /\ "post_id" \in DOMAIN summary)

C7_Witness ==
    /\ wp_result = "summary"
    /\ \E i \in 1..Len(calls) :
          /\ calls[i] = Call("rankmath", 0, "exception")
          /\ calls[i + 1] = Call("postmeta", 0, "ok")
    /\ summary["rankmath_set"] = TRUE

\* C8: the featured-image update is attempted iff at least one image upload
\* succeeded in the run, only after the draft exists, and its failure does
\* not prevent the summary from being returned.
C8_FeaturedImageNonFatal ==
    /\ (HasCall("featured") =>
           /\ media_list # <<>>
           /\ \E i \in 1..Len(calls) : calls[i] = Call("create", 0, "ok"))
    /\ ("rankmath_set" \in DOMAIN summary /\ pc \in {"cli_after_publish", "cli_end"}
           => (HasCall("featured") <=> media_list # <<>>))
    /\ (FailedCall("featured") => wp_result = "summary")

\* C9: under policy auto (and a non-empty prompt list), gemini is tried first
\* when its credential is configured, openai is tried when gemini produced
\* no image and the openai credential is configured, and whenever the call
\* returns an empty result the prompts file has been written.
C9_AutoEmptyMeansPromptsFile ==
    provider = "auto" /\ prompts # <<>> /\ gresult = "returned" =>
      /\ (config.gemini_api_key => tried # <<>> /\ tried[1] = "gemini")
      /\ (config.openai_api_key /\ paths = <<>> =>
             \E i \in 1..Len(tried) : tried[i] = "openai")
      /\ (paths = <<>> => prompts_file)

\* C10: under policy auto with no gemini credential and an openai credential,
\* generate_images goes to openai directly: the gemini generator is never
\* invoked and no gemini discovery or generation call is made.
C10_AutoSkipsGeminiWithoutKey ==
    provider = "auto" /\ ~config.gemini_api_key /\ config.openai_api_key =>
      /\ \A i \in 1..Len(gcalls) : gcalls[i].op \notin GeminiOps
      /\ \A i \in 1..Len(tried) : tried[i] = "openai"
      /\ gpc \notin {"gemini_enter", "gemini_list", "gemini_probe",
                     "gemini_gen", "gemini_returned", "gemini_raised"}
      /\ (gpc \notin {"start", "openai_enter"} => tried = <<"openai">>)

C10_Witness ==
    /\ provider = "auto" /\ ~config.gemini_api_key /\ config.openai_api_key
    /\ gresult = "returned"
    /\ paths # <<>>
    /\ gcalls # <<>>
    /\ tried = <<"openai">>

\* ------------------------------------------------------------------ C11
\* The generate calls of one provider's batch, in the order they were made.
BatchCalls(op) == SelectSeq(gcalls, LAMBDA c : c.op = op)

\* The calls of a batch that produced no image (an exception, or for gemini a
\* response without an image).
BatchFailures(op) == SelectSeq(BatchCalls(op), LAMBDA c : c.res \notin {"image", "ok"})

BatchAccounts(op, done) ==
    /\ Len(BatchCalls(op)) = done
    /\ \A i \in 1..done : BatchCalls(op)[i].n = prompts[i]
    /\ Len(paths) = done - Len(BatchFailures(op))

\* C11: a provider batch over N prompts of which M fail returns exactly N - M
\* images; every prompt is attempted, in order, whatever happened to the ones
\* before it; and a batch that has made a generate call never ends in the
\* raised state.
C11_BatchSkipsFailedImages ==
    /\ (gpc = "gemini_gen" => BatchAccounts("gemini_generate", gi - 1))
    /\ (gpc = "gemini_returned" => BatchAccounts("gemini_generate", Len(prompts)))
    /\ (gpc = "gemini_raised" => BatchCalls("gemini_generate") = <<>>)
    /\ (gpc = "openai_gen" => BatchAccounts("openai_generate", gi - 1))
    /\ (gpc = "openai_returned" => BatchAccounts("openai_generate", Len(prompts)))
    /\ (gpc = "openai_raised" => BatchCalls("openai_generate") = <<>>)

\* A gemini batch whose first prompt failed and whose second prompt was still
\* attempted and produced the only image returned.
C11_Witness ==
    /\ gpc = "gemini_returned"
    /\ Len(prompts) = 2
    /\ BatchCalls("gemini_generate")[1].res \in {"empty", "exception"}
    /\ BatchCalls("gemini_generate")[2].res = "image"
    /\ paths = <<prompts[2]>>

\* ------------------------------------------------------------------ C12
CountOf(c, tok) == Cardinality({i \in 1..Len(c) : c[i] = tok})

NotMdImg(tok) == tok.t # "mdimg"

\* C12 as stated: embed_images_in_markdown is idempotent -- applying it a
\* second time with the same image list leaves the content of the first
\* application unchanged.
C12_EmbedIdempotent == [][md_pc = 1 => markdown' = markdown]_vars

\* C12 as the code has it: the placeholder comment is kept, so every
\* application, the second included, inserts one more image reference per
\* listed file whose number has a placeholder, and changes nothing else.
C12_EveryPassInsertsAgain ==
    [][/\ SelectSeq(markdown', NotMdImg) = SelectSeq(markdown, NotMdImg)
       /\ \A k \in 1..MaxImages :
             CountOf(markdown', MdImg(k)) =
                CountOf(markdown, MdImg(k))
                + (IF EmbedMatches(markdown, k) = {} THEN 0
                   ELSE CountOf(image_paths, k))]_vars

\* After two applications the one placeholder is followed by two copies of
\* its image reference.
C12_Witness ==
    /\ md_pc = 2
    /\ image_paths = <<1>>
    /\ markdown = <<MdPh(1), MdImg(1), MdImg(1)>>

\* ------------------------------------------------------------------ C16
\* The result of one check among the twelve returned.
ResultOf(check) == results[CHOOSE i \in 1..Len(results) : results[i].check = check]

Checked == seo_pc \in {"checked", "done"}

\* The claim's pass condition: the keyword, hyphenated, is a substring of the
\* slug, or at least 60% of the keyword's (distinct) words are slug words.
SlugHasKeyword ==
    \/ \E i \in 0..Len(content.slug) :
          /\ i + Len(keyword) <= Len(content.slug)
          /\ SubSeq(content.slug, i + 1, i + Len(keyword)) = keyword
    \/ 100 * Cardinality({w \in Range(keyword) : w \in Range(content.slug)})
          >= 60 * Cardinality(Range(keyword))

\* C16 as stated: the slug check passes iff the slug has the keyword or 60%
\* of its words, and is a hard failure (passed = false, warning = false) in
\* every other case.
C16_SlugMissIsHardFailure ==
    Checked =>
        /\ (ResultOf("slug").passed <=> SlugHasKeyword)
        /\ (~ResultOf("slug").passed => ~ResultOf("slug").warning)

\* C16 as the code has it: same pass condition, and every other case is a
\* warning (passed = false, warning = true); the check never hard-fails.
C16_SlugMissIsWarning ==
    Checked =>
        /\ (ResultOf("slug").passed <=> SlugHasKeyword)
        /\ (~ResultOf("slug").passed => ResultOf("slug").warning)

\* Two of the keyword's three words are slug words, not adjacent in keyword
\* order: the check passed as a close variation.
C16_Witness ==
    /\ Checked
    /\ keyword = <<"a", "b", "c">>
    /\ content.slug = <<"b", "x", "a">>
    /\ ResultOf("slug").passed
    /\ ResultOf("slug").detail = "close variation found"

\* ------------------------------------------------------------------ C17
\* What the density check counted in the body.
Counted == check_keyword_density(content.body, keyword)

\* (exactCount + nearVariationCount) * keywordWordCount * 100 / totalBodyWords
\* compared with a bound given in tenths of a percent.
DensityAtLeast(tenths) ==
    (ExactCount(content.body, keyword) + VariationCount(content.body, keyword))
        * Len(keyword) * 1000 >= tenths * WordCount(content.body)

DensityAtMost(tenths) ==
    (ExactCount(content.body, keyword) + VariationCount(content.body, keyword))
        * Len(keyword) * 1000 <= tenths * WordCount(content.body)

\* C17: for a non-empty body the density check passes iff
\* 1.0 <= density <= 2.0, warns iff 0.8 <= density < 1.0 or
\* 2.0 < density <= 2.5, and hard-fails iff density < 0.8 or density > 2.5,
\* where density = (exact + near-variation) * keyword words / body words * 100.
C17_DensityBands ==
    Checked /\ WordCount(content.body) > 0 =>
        LET r == ResultOf("density")
        IN  /\ r.passed <=> DensityAtLeast(10) /\ DensityAtMost(20)
            /\ (~r.passed /\ r.warning) <=>
                   \/ DensityAtLeast(8) /\ ~DensityAtLeast(10)
                   \/ ~DensityAtMost(20) /\ DensityAtMost(25)
            /\ (~r.passed /\ ~r.warning) <=>
                   ~DensityAtLeast(8) \/ ~DensityAtMost(25)

\* A one-word keyword found once in 125 words: density is exactly 0.8 and
\* the check warns.
C17_Witness ==
    /\ Checked
    /\ Len(keyword) = 1
    /\ WordCount(content.body) = 125
    /\ Counted.total_instances = 1
    /\ ~ResultOf("density").passed
    /\ ResultOf("density").warning

\* ------------------------------------------------------------------ C19
\* C19: the exact count returned by the density check is at most the total
\* instance count; when the total is not zero, exact / total * 100 lies in
\* [0, 100]; and the ratio check passes iff that ratio is at least 40.
C19_ExactMatchRatio ==
    Checked =>
        LET e == Counted.exact_count
            t == Counted.total_instances
        IN  /\ e <= t
            /\ (t # 0 => 0 <= e * 100 /\ e * 100 <= 100 * t)
            /\ (ResultOf("exact-match ratio").passed <=>
                    t # 0 /\ e * 100 >= 40 * t)

\* Only a near-variation was found: the ratio is 0 and the check warns.
C19_Witness ==
    /\ Checked
    /\ Counted.exact_count = 0
    /\ Counted.total_instances = 1
    /\ ~ResultOf("exact-match ratio").passed
    /\ ResultOf("exact-match ratio").warning

\* ------------------------------------------------------------------ C20
ZeroInstances ==
    /\ ExactCount(content.body, keyword) = 0
    /\ VariationCount(content.body, keyword) = 0

HardFailed(r) == ~r.passed /\ ~r.warning

\* A heading names the keyword when it contains it or has at least half
\* (rounded down, and at least one) of its distinct words.
HeadingNamesKeyword(h) ==
    \/ \E i \in 0..Len(h) :
          /\ i + Len(keyword) <= Len(h)
          /\ SubSeq(h, i + 1, i + Len(keyword)) = keyword
    \/ /\ Cardinality(Range(keyword) \cap Range(h)) >= 1
       /\ 2 * Cardinality(Range(keyword) \cap Range(h))
             >= Cardinality(Range(keyword)) - 1

\* C20 as stated: when the body has no exact match and no near-variation of
\* the keyword, the density check hard-fails with detail "too low", the
\* exact-match ratio check warns for lack of instances, and the subheading
\* check hard-fails.
C20_ZeroInstancesVerdicts ==
    Checked /\ ZeroInstances =>
        /\ HardFailed(ResultOf("density"))
        /\ ResultOf("density").detail = "too low"
        /\ ResultOf("exact-match ratio") =
               SEOResult("exact-match ratio", FALSE, TRUE,
                         "no keyword instances found")
        /\ HardFailed(ResultOf("subheadings"))

\* C20 as the code has it: the density check hard-fails, with detail "too
\* low" or, for a body without words, "no content found"; the ratio check
\* warns for lack of instances; the subheading check hard-fails only when no
\* heading of the document names the keyword.
C20_ZeroInstancesAmended ==
    Checked /\ ZeroInstances =>
        /\ HardFailed(ResultOf("density"))
        /\ ResultOf("density").detail =
               (IF WordCount(content.body) = 0 THEN "no content found"
                ELSE "too low")
        /\ ResultOf("exact-match ratio") =
               SEOResult("exact-match ratio", FALSE, TRUE,
                         "no keyword instances found")
        /\ (HardFailed(ResultOf("subheadings")) <=>
               \A i \in 1..Len(extract_headings(content)) :
                   ~HeadingNamesKeyword(extract_headings(content)[i]))

\* Two markdown headings, each with one word of the two-word keyword: no
\* instance in the body, and the subheading check passes.
C20_Witness ==
    /\ Checked
    /\ ZeroInstances
    /\ keyword = <<"a", "b">>
    /\ content.html_headings = <<>>
    /\ Len(extract_headings(content)) = 2
    /\ ResultOf("subheadings").passed
    /\ ResultOf("density").detail = "too low"

\* ------------------------------------------------------------------ C18
\* The second body differs from the first only where it has an exact
\* occurrence of the keyword.
OtherwiseTheSame ==
    LET W1 == HeadWords(content[1])
        W2 == HeadWords(content[2])
    IN  /\ Len(W1) = Len(W2)
        /\ \A p \in 1..Len(W2) :
              W1[p].w # W2[p].w =>
                 \E i \in 1..p : /\ p < i + Len(keyword)
                                 /\ MatchAt(W2, keyword, i, FALSE)

MoreExactOccurrences ==
    /\ seo_pc = "done"
    /\ OtherwiseTheSame
    /\ results[2].exact_count > results[1].exact_count

DensityGrew ==
    DensityX10(results[2].total_instances, Len(keyword))
        > DensityX10(results[1].total_instances, Len(keyword))

\* C18 as stated: of two bodies with the same number of words, the second
\* having more exact keyword occurrences and being otherwise the same, the
\* second has the strictly greater density.
C18_DensityMonotonic == MoreExactOccurrences => DensityGrew

\* C18 as the code has it: the same, for a keyword of at least one word and
\* two bodies with the same number of near-variation windows.
C18_DensityMonotonicInExactCount ==
    /\ MoreExactOccurrences
    /\ Len(keyword) >= 1
    /\ VariationCount(content[1], keyword) = VariationCount(content[2], keyword)
    => DensityGrew

\* "x a b" against "x x x" for the keyword "a b": one exact occurrence more,
\* no near-variation in either.
C18_Witness ==
    /\ MoreExactOccurrences
    /\ keyword = <<"a", "b">>
    /\ results[1].total_instances = 0
    /\ results[2].exact_count = 1
    /\ results[2].total_instances = 1
    /\ WordCount(content[2]) = 3

\* ------------------------------------------------------------------ C13
CheckOrder ==
    <<"title", "meta keyword", "meta length", "first paragraph", "slug",
      "density", "exact-match ratio", "subheadings", "image alt text",
      "word count", "sources", "internal links">>

\* C13: run_seo_checks returns exactly twelve results, one per check, in the
\* fixed order, whatever the content and the keyword.
C13_TwelveResultsInOrder ==
    Checked =>
        /\ Len(results) = 12
        /\ \A i \in 1..12 : results[i].check = CheckOrder[i]

\* The twelve results of the empty content.
C13_Witness ==
    /\ Checked
    /\ content = EmptyContent
    /\ Len(results) = 12
    /\ results[7].detail = "no keyword instances found"

\* ------------------------------------------------------------------ C14
SomeHardFailure == \E i \in 1..Len(results) : HardFailed(results[i])

\* C14: the flag display_results returns is true iff some result has
\* passed = false and warning = false; without --no-save a run whose flag is
\* false always saves the file and never takes the declined exit; the declined
\* exit is taken only with the flag true, and then no file is saved and no
\* publish is attempted.
C14_HardFailureFlagGatesSaving ==
    /\ (seo_pc = "done" => (has_failures <=> SomeHardFailure))
    /\ (pc \notin {"cli_seo", "cli_output"} /\ ~args.no_save /\ ~has_failures =>
           file = "saved" /\ exit # "exit0")
    /\ (exit = "exit0" =>
           /\ has_failures
           /\ ~args.no_save
           /\ file = "absent"
           /\ calls = <<>>
           /\ pc = "cli_end")

\* The user declined after a hard failure, in a run that would have saved
\* and published.
C14_Witness ==
    /\ exit = "exit0"
    /\ SomeHardFailure
    /\ WpEnabled(args, config)
    /\ file = "absent"

\* ------------------------------------------------------------------ C15
NeverHardFailing == {"exact-match ratio", "image alt text", "sources", "internal links"}

\* C15: the exact-match ratio, image alt text, sources and internal links
\* checks end in pass or warn, never in a hard failure.
C15_FourChecksNeverHardFail ==
    Checked => \A check \in NeverHardFailing : ~HardFailed(ResultOf(check))

\* All four did not pass, and all four are warnings.
C15_Witness ==
    /\ Checked
    /\ \A check \in NeverHardFailing :
          ~ResultOf(check).passed /\ ResultOf(check).warning

\* --------------------------------------------------------------------- C21
HasLine(S) == \E i \in 1..Len(text) : text[i] \in S

\* The lines from just below line i down to line j.
SectionBelow(i, j) == SubSeq(text, i + 1, j)

\* The second of the sections that the dash lines cut the text into: the
\* lines between the first dash line and the next one (or the end).
SecondDashSection ==
    LET first == FirstLine(text, {Separator, SeparatorTrailing}, 1)
        next == FirstLine(text, {Separator, SeparatorTrailing}, first + 1)
    IN  SectionBelow(first, IF next = 0 THEN Len(text) ELSE next - 1)

\* C21: body extraction applies exactly one of three tiers, in this order:
\* when the body-section header is present the result is the text of that
\* section (the lines below the header, down to wherever the section ends);
\* otherwise, when dash lines cut the text into sections, the second of
\* them; otherwise the whole text unchanged.
C21_ThreeTiers ==
    parse_pc = "body_done" =>
        IF HasLine({VisualHeader})
        THEN \E j \in 1..Len(text) :
                 parsed = SectionBelow(FirstLine(text, {VisualHeader}, 1), j)
        ELSE IF HasLine({Separator, SeparatorTrailing})
             THEN parsed = SecondDashSection
             ELSE parsed = text

\* --------------------------------------------------------------------- C22
IsMarkdownHeadingLine(l) == l.kind \in {"## heading", "## <h2>heading</h2>"}

IsHtmlHeadingLine(l) == l.kind \in {"<h2>heading</h2>", "## <h2>heading</h2>"}

\* The heading lines of a kind in t, in document order.
HeadingLinesOf(t, as_md) ==
    SelectSeq(t, LAMBDA l : IF as_md THEN IsMarkdownHeadingLine(l)
                            ELSE IsHtmlHeadingLine(l))

\* parsed[i] is the heading text of line l, read as as_md or as HTML.
IsHeadingOf(i, l, as_md) ==
    /\ parsed[i].n = l.n
    /\ parsed[i].tagged = (as_md /\ IsHtmlHeadingLine(l))

\* C22: for every input the heading sequence is all markdown ##/###
\* headings of the body in document order, followed by all HTML h2/h3
\* headings of the full text in document order; no HTML heading precedes a
\* markdown heading in the result.
C22_MarkdownThenHtml ==
    parse_pc = "headings_done" =>
        LET md == HeadingLinesOf(_extract_blog_body(text), TRUE)
            html == HeadingLinesOf(text, FALSE)
        IN  /\ Len(parsed) = Len(md) + Len(html)
            /\ \A i \in 1..Len(md) : IsHeadingOf(i, md[i], TRUE)
            /\ \A i \in 1..Len(html) :
                   IsHeadingOf(Len(md) + i, html[i], FALSE)

\* An HTML heading stands above the body's markdown heading in the text and
\* below it in the result; a markdown heading outside the body is left out.
C22_Witness ==
    /\ parse_pc = "headings_done"
    /\ text = <<HtmlHeading(1), VisualHeader, MdHeading(2), Separator,
                MdHeading(1)>>
    /\ parsed = <<Heading(2, FALSE), Heading(1, FALSE)>>

\* --------------------------------------------------------------------- C23
ParserRaised == parse_pc = "prompts_raised"

\* C23: every parser operation (metadata, body, headings, image prompts,
\* HTML sections) returns a value and never raises, whatever the text (the
\* empty text, blank lines and unmatched code fences included); a field
\* whose line is missing is absent from the metadata mapping, and a text
\* without prompts or sections yields the empty list or the empty string.
C23_ParsersNeverRaise ==
    /\ ~ParserRaised
    /\ parse_pc = "metadata_done" =>
           DOMAIN parsed = {f \in SeoFields : HasField(text, f)}
    /\ parse_pc = "wp_metadata_done" =>
           DOMAIN parsed = {f \in WpFields : HasField(text, f)}
    /\ parse_pc = "prompts_done" /\ ~HasLine(ImageHeaders) => parsed = <<>>
    /\ parse_pc = "sections_done" /\ ~HasLine(HtmlFormatLines) =>
           parsed = <<>>

\* --------------------------------------------------------------------- C24
\* A CMS operation was started and the run is over: publish_to_wordpress
\* was called and left, or the upload command got past its look for local
\* images and ended.
CmsOperationOver ==
    \/ pc \in {"cli_after_publish", "cli_end"} /\ wp_result # "none"
    \/ pc = "uic_end" /\ local_images # <<>>

\* The CMS URL, the username or the application password is not configured.
CmsCredentialMissing ==
    \/ ~config.wordpress_url
    \/ ~config.wordpress_username
    \/ ~config.wordpress_app_password

\* The credential of the selected image provider is missing.
ProviderKeyMissing ==
    \/ provider = "gemini" /\ ~config.gemini_api_key
    \/ provider = "openai" /\ ~config.openai_api_key

\* C24: when the credential for the selected provider is not configured
\* (gemini key under policy gemini, openai key under policy openai; CMS URL,
\* username or application password for a CMS operation), the operation
\* raises a configuration error and no network call has been made.
C24_MissingCredentialRaisesFirst ==
    /\ CmsCredentialMissing =>
           /\ calls = <<>>
           /\ CmsOperationOver => wp_result = "WordPressError"
    /\ ProviderKeyMissing =>
           /\ gcalls = <<>>
           /\ gpc = "done" => gresult = "raised"

\* The URL alone is missing: the publishing step is entered and raises.
C24_Witness ==
    /\ ~config.wordpress_url
    /\ config.wordpress_username /\ config.wordpress_app_password
    /\ PublishCalled
    /\ pc = "cli_after_publish"
    /\ wp_result = "WordPressError"
    /\ calls = <<>>

\* --------------------------------------------------------------------- C25
\* The link block has been dealt with: step 3 of publish_to_wordpress is
\* over and c related posts were picked.
LinksInserted(c) ==
    /\ pc = "wp_create"
    /\ summary["internal_links_count"] = c

\* blog_html with the block of c links put in front of position j.
BlockBefore(j, c) ==
    SubSeq(blog_html, 1, j - 1) \o <<Links(c)>>
        \o SubSeq(blog_html, j, Len(blog_html))

\* Position j holds the first token of blog_html that is in S.
FirstIn(j, S) ==
    /\ blog_html[j] \in S
    /\ \A l \in 1..(j - 1) : blog_html[l] \notin S

\* Every form of an h2 heading whose text is the word Sources.
SourcesHeadings == {H2Sources, H2SourcesAttr, H2SourcesLower}

\* C25: the link block is inserted immediately before the Sources heading
\* only when the HTML contains exactly <h2>Sources</h2>; when the heading
\* carries attributes or another letter case the block is appended at the
\* end of the document; with no related posts the HTML is unchanged.
C25_ExactSourcesHeadingOnly ==
    \A c \in 0..RelatedLimit :
        LinksInserted(c) =>
            IF c = 0 THEN html_content = blog_html
            ELSE IF \E j \in 1..Len(blog_html) : blog_html[j] = H2Sources
            THEN \E j \in 1..Len(blog_html) :
                     FirstIn(j, {H2Sources}) /\ html_content = BlockBefore(j, c)
            ELSE html_content = blog_html \o <<Links(c)>>

\* C25 as the code has it: the block is inserted immediately before the
\* first h2 Sources heading, with or without attributes and in any letter
\* case; it is appended at the end only when there is no such heading; with
\* no related posts the HTML is unchanged.
C25_AnySourcesHeading ==
    \A c \in 0..RelatedLimit :
        LinksInserted(c) =>
            IF c = 0 THEN html_content = blog_html
            ELSE IF \E j \in 1..Len(blog_html) : blog_html[j] \in SourcesHeadings
            THEN \E j \in 1..Len(blog_html) :
                     /\ FirstIn(j, SourcesHeadings)
                     /\ html_content = BlockBefore(j, c)
            ELSE html_content = blog_html \o <<Links(c)>>

\* A heading with attributes, behind a placeholder: the block goes in front
\* of the heading, not to the end.
C25_Witness ==
    /\ LinksInserted(2)
    /\ blog_html = <<Ph(1), H2SourcesAttr>>
    /\ html_content = <<Ph(1), Links(2), H2SourcesAttr>>

\* --------------------------------------------------------------------- C26
\* This step of publish_to_wordpress uploaded the image at position idx.
UploadedHere ==
    /\ pc = "wp_upload"
    /\ Len(media_list') = Len(media_list) + 1

\* The HTML has an alt-text comment for the placeholder numbered i.
HasAltComment(i) ==
    \E j \in 1..Len(html_content) : html_content[j] = PhAlt(i)

\* C26: every image uploaded by publish_to_wordpress is tagged with the alt
\* text parsed from its placeholder's alt-text comment when the HTML has
\* one, and otherwise with the fallback alt string generated from the slug
\* and the image number: a placeholder without an alt-text comment gets the
\* fallback, never an empty alt text.
C26_AltTextOrFallback ==
    [][UploadedHere =>
           LET alt == media_list'[Len(media_list')].alt_text
           IN  /\ alt # EmptyAlt
               /\ alt = IF HasAltComment(idx) THEN ParsedAlt(idx)
                        ELSE FallbackAlt(idx)]_vars

\* --------------------------------------------------------------------- C27
CallsOf(op) == {i \in 1..Len(calls) : calls[i].op = op}

\* The call at position i follows a call of `op` that went through.
AfterOk(i, op) == \E j \in 1..(i - 1) : calls[j].op = op /\ calls[j].res = "ok"

\* C27: upload_images_command never creates a draft and guards each step on
\* the one before: no remote call when there is no local image, no upload
\* when no draft with the slug was found, the draft content patched (with
\* the placeholders substituted) at most once and only after at least one
\* upload succeeded, the featured image set only after the patch went
\* through.
C27_RecoveryPathGuards ==
    /\ CallsOf("create") = {}
    /\ local_images = <<>> => calls = <<>>
    /\ \A i \in CallsOf("upload") : AfterOk(i, "find_draft")
    /\ Cardinality(CallsOf("patch")) <= 1
    /\ \A i \in CallsOf("patch") :
           /\ \E j \in 1..(i - 1) : UploadReturned(j)
           /\ media_list # <<>>
           /\ html_content = replace_image_placeholders(blog_html, media_list)
    /\ \A i \in CallsOf("featured") : AfterOk(i, "patch")

\* Two images, the first upload fails: the draft is patched with the second
\* image in the first placeholder and the featured image is set.
C27_Witness ==
    /\ pc = "uic_end"
    /\ wp_result = "returned"
    /\ local_images = <<1, 2>>
    /\ blog_html = <<Ph(1), Ph(2)>>
    /\ html_content = <<Img(2), Ph(2)>>
    /\ calls = <<Call("find_draft", 0, "ok"), Call("upload", 1, "http_error"),
                 Call("upload", 2, "ok"), Call("media_alt", 2, "ok"),
                 Call("patch", 0, "ok"), Call("featured", 2, "ok")>>

\* ---------------------------------------------------------------- C28

\* The stage of publish_to_wordpress a remote call belongs to.
StageOf(op) ==
    CASE op = "validate" -> 1
      [] op = "fetch" -> 2
      [] op \in {"upload", "media_alt"} -> 3
      [] op = "create" -> 4
      [] op \in {"rankmath", "postmeta"} -> 5
      [] op = "featured" -> 6

\* Some call of stage s that went through stands before position i.
StageDoneBefore(i, s) ==
    \E j \in 1..(i - 1) : StageOf(calls[j].op) = s /\ calls[j].res = "ok"

\* C28: in every run of publish_to_wordpress the remote calls occur in the
\* order credential check, related-post fetch, image uploads, draft
\* creation, SEO-metadata update, featured-image update: no call of an
\* earlier stage follows a call of a later one, the fetch follows a passed
\* credential check, every later call follows the fetch, and the metadata
\* and featured-image updates follow the created draft; at most one draft
\* is created (and one credential check, fetch and featured-image update
\* made); the returned summary says "uploaded" iff at least one upload
\* succeeded.
C28_StagesInOrder ==
    PublishCalled =>
      /\ \A i \in 1..(Len(calls) - 1) :
            StageOf(calls[i].op) <= StageOf(calls[i + 1].op)
      /\ \A i \in 1..Len(calls) :
            /\ StageOf(calls[i].op) >= 2 => StageDoneBefore(i, 1)
            /\ StageOf(calls[i].op) >= 3 =>
                  \E j \in 1..(i - 1) : calls[j].op = "fetch"
            /\ StageOf(calls[i].op) >= 5 => StageDoneBefore(i, 4)
            /\ calls[i].op = "featured" =>
                  \E j \in 1..(i - 1) : StageOf(calls[j].op) = 5
      /\ \A i \in 1..Len(calls) :
            calls[i].op \in {"validate", "fetch", "create", "featured"} =>
               \A j \in 1..(i - 1) : calls[j].op # calls[i].op
      /\ wp_result = "summary" =>
            (summary["images_status"][1] = "uploaded" <=>
                SuccessfulUploads # <<>>)

\* A run through all six stages in which one of two uploads failed.
C28_Witness ==
    /\ wp_result = "summary"
    /\ calls = <<Call("validate", 0, "ok"), Call("fetch", 0, "http_error"),
                 Call("upload", 1, "http_error"), Call("upload", 2, "ok"),
                 Call("media_alt", 2, "ok"), Call("create", 0, "ok"),
                 Call("rankmath", 0, "http_error"), Call("postmeta", 0, "ok"),
                 Call("featured", 2, "ok")>>
    /\ summary["images_status"] = <<"uploaded", 1>>

\* A run that returns with every upload failed.
C28_WitnessPending ==
    /\ wp_result = "summary"
    /\ HasCall("upload")
    /\ SuccessfulUploads = <<>>
    /\ summary["images_status"][1] = "pending"

\* ---------------------------------------------------------------- C29

GCallsOf(op) == {i \in 1..Len(gcalls) : gcalls[i].op = op}

\* client.models.list() raised.
ListingErrored ==
    \E i \in GCallsOf("gemini_list") : gcalls[i].res = "exception"

\* The listing named no imagen model and none of the known identifiers
\* answered.
ListedAndProbedNothing ==
    /\ \E i \in GCallsOf("gemini_list") : gcalls[i].res = "none"
    /\ Cardinality(GCallsOf("gemini_get")) = NumCandidates
    /\ \A i \in GCallsOf("gemini_get") : gcalls[i].res = "exception"

\* _generate_gemini went through its loop and saved nothing.
GeminiReturnedNothing ==
    /\ config.gemini_api_key /\ packages.genai
    /\ ~ListedAndProbedNothing
    /\ Cardinality(GCallsOf("gemini_generate")) = Len(prompts)
    /\ \A i \in GCallsOf("gemini_generate") : gcalls[i].res # "image"

\* The second half of the claim: when openai is tried under policy gemini.
OpenAIOnlyAfterEmptyGemini ==
    "openai" \in Range(tried) =>
        /\ tried = <<"gemini", "openai">>
        /\ GeminiReturnedNothing
        /\ config.openai_api_key

\* C29 as stated: under policy gemini, when discovery resolves no model --
\* the listing and the probing yield none, or the listing itself errors --
\* the batch fails with an error and no per-image generation call is made;
\* openai is tried only after gemini returned nothing without raising and
\* with an openai credential.
C29_NoModelFailsBatch ==
    provider = "gemini" /\ gpc # "idle" =>
      /\ ListingErrored \/ ListedAndProbedNothing =>
            /\ GCallsOf("gemini_generate") = {}
            /\ GCallsOf("openai_generate") = {}
            /\ gpc = "done" => gresult = "raised"
      /\ OpenAIOnlyAfterEmptyGemini

\* C29, amended: the batch fails without a generation call when the listing
\* answered without an imagen model and no known identifier answered; when
\* the listing call errors, no identifier is probed and generation goes on
\* with the default model name, one call per prompt.
C29_ListingErrorUsesDefault ==
    provider = "gemini" /\ gpc # "idle" =>
      /\ ListedAndProbedNothing =>
            /\ GCallsOf("gemini_generate") = {}
            /\ GCallsOf("openai_generate") = {}
            /\ gpc = "done" => gresult = "raised"
      /\ ListingErrored =>
            /\ GCallsOf("gemini_get") = {}
            /\ gpc = "done" /\ gresult = "returned" =>
                  Cardinality(GCallsOf("gemini_generate")) = Len(prompts)
            /\ gpc = "done" /\ gresult = "raised" => "openai" \in Range(tried)
      /\ OpenAIOnlyAfterEmptyGemini

\* The listing errored, generation ran with the default model and saved an
\* image.
C29_Witness ==
    /\ provider = "gemini"
    /\ gpc = "done" /\ gresult = "returned"
    /\ prompts = <<1, 2>>
    /\ gcalls = <<GCall("gemini_list", 0, "exception"),
                  GCall("gemini_generate", 1, "exception"),
                  GCall("gemini_generate", 2, "image")>>
    /\ paths = <<2>>

\* No model resolved: the batch failed before any generation call.
C29_WitnessNoModel ==
    /\ provider = "gemini"
    /\ gpc = "done" /\ gresult = "raised"
    /\ prompts # <<>>
    /\ ListedAndProbedNothing
    /\ config.openai_api_key

\* openai after an empty gemini batch.
C29_WitnessOpenAI ==
    /\ provider = "gemini"
    /\ gpc = "done" /\ gresult = "returned"
    /\ tried = <<"gemini", "openai">>
    /\ paths # <<>>

\* ---------------------------------------------------------------- C30

\* C30: for every content and keyword, the slug under which the local
\* markdown file is saved (extract_slug) equals the slug under which
\* publish_to_wordpress looks up local images and creates the draft, with
\* and without a URL Slug field in the content.
C30_FileSlugIsDraftSlug ==
    parse_pc = "publishing" => parsed.file_slug = parsed.draft_slug

\* The part that holds: with a URL Slug field the two slugs are equal.
C30_FieldSlugsAgree ==
    parse_pc = "publishing" /\ HasField(text, "slug") =>
        parsed.file_slug = parsed.draft_slug

\* A URL Slug field written in backticks, read by both.
C30_WitnessField ==
    /\ parse_pc = "publishing"
    /\ text = <<MetaLine("title", 1), QuotedSlugLine(2)>>
    /\ parsed.file_slug = Value(2, FALSE)
    /\ parsed.draft_slug = Value(2, FALSE)

\* A keyword with punctuation and no URL Slug field: two different slugs.
C30_WitnessDiverge ==
    /\ parse_pc = "publishing"
    /\ ~HasField(text, "slug")
    /\ keyword = <<"a", "'", "a">>
    /\ parsed.file_slug = <<"a", "a">>
    /\ parsed.draft_slug = <<"a", "'", "a">>

====
